---- MODULE Spec2Model ----
(***************************************************************************)
(* Model of the callout server (cmd/callout-server/main.go): the header    *)
(* extractor, the token validation done through jwxjwt.Parse, the Check    *)
(* adapter, the Process adapter with its receive loop, and the start of    *)
(* the server in main; and of the wasm plugin (plugins/wasm-jwt/main.go)   *)
(* that validates the same tokens inside the proxy.                        *)
(*                                                                         *)
(* Text is modelled as a sequence of symbols.  A symbol is a one-character *)
(* string, or the name of an opaque base64url blob (a token segment).      *)
(* Prefix tests, prefix removal, case folding and the split of a compact   *)
(* token at its dots are computed on these sequences as the code computes  *)
(* them on strings.  Subjects and error messages are atomic strings.       *)
(***************************************************************************)
EXTENDS Integers, Sequences, FiniteSets, TLC

VARIABLES
    publicKey,   \* calloutServer.publicKey, set once by newCalloutServer
    now,         \* the wall clock read by the token validation
    headers,     \* the header collection of the HTTP request under decision
    check,       \* the last Check call on it: the clock reading, the local
                 \* bearer (value and error) and the returned response and error
    proc,        \* the last handleRequestHeaders call on it, likewise
    stream,      \* one Process stream: whether it is open, what Process
                 \* returned, the requests stream.Recv returned and the
                 \* responses handed to stream.Send, both in order
    boot,        \* main: where it stands, the environment it was started
                 \* in, the services registered and how it ended
    wasm,        \* the wasm plugin (plugins/wasm-jwt/main.go): its
                 \* configuration, its pluginState and its last
                 \* OnHttpRequestHeaders call on the request
    conc         \* the Process streams served at the same time, each by
                 \* its own goroutine: per stream whether it is open, what
                 \* Process returned, the request in hand, the requests
                 \* received and the responses sent

vars == <<publicKey, now, headers, check, proc, stream, boot, wasm, conc>>

----------------------------------------------------------------------------
(* Bounds of the model *)

\* the longest header collection built from CoreEntries
MaxHeaders == 2
\* the clock runs over 0 .. MaxTime
MaxTime == 3
\* the most requests one Process stream receives
MaxEvents == 3
\* the most requests each of the concurrent streams receives
MaxConcEvents == 2

----------------------------------------------------------------------------
(* Program constants *)

bearerPrefix == <<"B", "e", "a", "r", "e", "r", " ">>
headerAuth == <<"a", "u", "t", "h", "o", "r", "i", "z", "a", "t", "i", "o", "n">>
headerUID == <<"x", "-", "u", "i", "d">>

errMissingAuthorization == "authorization header is missing"
errInvalidAuthorization == "authorization header is invalid"
errSubjectMissing == "subject is missing"

\* int32(codes.OK), int32(codes.PermissionDenied), envoytype.StatusCode_Forbidden
codesOK == 0
codesPermissionDenied == 7
StatusCodeForbidden == 403

----------------------------------------------------------------------------
(* strings.EqualFold, strings.HasPrefix, strings.TrimPrefix *)

UpperChars == <<"A", "B", "C", "D", "E", "F", "G", "H", "I", "J", "K", "L", "M",
                "N", "O", "P", "Q", "R", "S", "T", "U", "V", "W", "X", "Y", "Z">>
LowerChars == <<"a", "b", "c", "d", "e", "f", "g", "h", "i", "j", "k", "l", "m",
                "n", "o", "p", "q", "r", "s", "t", "u", "v", "w", "x", "y", "z">>

\* the lower-case letter of each upper-case letter
LowerOf ==
    [c \in {UpperChars[i] : i \in 1..Len(UpperChars)} |->
        LowerChars[CHOOSE i \in 1..Len(UpperChars) : UpperChars[i] = c]]

ToLower(c) == IF c \in DOMAIN LowerOf THEN LowerOf[c] ELSE c

EqualFold(s, t) ==
    /\ Len(s) = Len(t)
    /\ \A i \in 1..Len(s) : ToLower(s[i]) = ToLower(t[i])

HasPrefix(s, prefix) ==
    /\ Len(s) >= Len(prefix)
    /\ SubSeq(s, 1, Len(prefix)) = prefix

TrimPrefix(s, prefix) ==
    IF HasPrefix(s, prefix) THEN SubSeq(s, Len(prefix) + 1, Len(s)) ELSE s

----------------------------------------------------------------------------
(* Header extractor *)

\* string(header.GetRawValue()): the bytes taken as text, unchanged
StringOfBytes(raw) == raw

\* a loop in which a later matching entry with a value overrides an earlier
RECURSIVE HeaderValueFrom_LastWins(_, _, _)
HeaderValueFrom_LastWins(hs, key, i) ==
    IF i > Len(hs) THEN <<>>
    ELSE LET rest == HeaderValueFrom_LastWins(hs, key, i + 1)
             value == IF hs[i].Value = <<>> /\ Len(hs[i].RawValue) > 0
                      THEN hs[i].RawValue
                      ELSE hs[i].Value
         IN IF rest # <<>> THEN rest
            ELSE IF EqualFold(hs[i].Key, key) THEN value
            ELSE <<>>

\* a loop that takes the raw bytes first and the string value second
RECURSIVE HeaderValueFrom_PrefersRaw(_, _, _)
HeaderValueFrom_PrefersRaw(hs, key, i) ==
    IF i > Len(hs) THEN <<>>
    ELSE IF ~EqualFold(hs[i].Key, key) THEN HeaderValueFrom_PrefersRaw(hs, key, i + 1)
    ELSE LET value == IF Len(hs[i].RawValue) > 0
                      THEN StringOfBytes(hs[i].RawValue)
                      ELSE hs[i].Value
         IN IF value # <<>> THEN value
            ELSE HeaderValueFrom_PrefersRaw(hs, key, i + 1)

\* the loop of getHeaderValueFromHeaderMap from entry i on
RECURSIVE HeaderValueFrom(_, _, _)
HeaderValueFrom(hs, key, i) ==
    IF i > Len(hs) THEN <<>>
    ELSE IF ~EqualFold(hs[i].Key, key) THEN HeaderValueFrom(hs, key, i + 1)
    ELSE LET value == IF hs[i].Value = <<>> /\ Len(hs[i].RawValue) > 0
                      THEN StringOfBytes(hs[i].RawValue)
                      ELSE hs[i].Value
         IN IF value # <<>> THEN value
            ELSE HeaderValueFrom(hs, key, i + 1)

\* a lookup that takes the first valued entry, whatever its key
getHeaderValueFromHeaderMap_AnyKey(headerMap, key) ==
    LET hs == headerMap.Headers
        valued == {i \in 1..Len(hs) : hs[i].Value # << >>}
    IN IF headerMap.isNil \/ valued = {} THEN << >>
       ELSE hs[CHOOSE i \in valued : \A j \in valued : i <= j].Value

getHeaderValueFromHeaderMap(headerMap, key) ==
    IF headerMap.isNil THEN <<>>
    ELSE HeaderValueFrom(headerMap.Headers, key, 1)

\* a parseBearer that compares the prefix without regard to case
parseBearer_FoldsCase(value) ==
    IF ~(Len(value) >= Len(bearerPrefix)
         /\ EqualFold(SubSeq(value, 1, Len(bearerPrefix)), bearerPrefix))
    THEN [value |-> <<>>, err |-> errInvalidAuthorization]
    ELSE [value |-> SubSeq(value, Len(bearerPrefix) + 1, Len(value)), err |-> "nil"]

\* a parseBearer that checks the prefix and forgets to strip it
parseBearer_KeepsPrefix(value) ==
    IF ~HasPrefix(value, bearerPrefix)
    THEN [value |-> <<>>, err |-> errInvalidAuthorization]
    ELSE [value |-> value, err |-> "nil"]

parseBearer(value) ==
    IF ~HasPrefix(value, bearerPrefix)
    THEN [value |-> <<>>, err |-> errInvalidAuthorization]
    ELSE [value |-> TrimPrefix(value, bearerPrefix), err |-> "nil"]

bearerFromHeaderMap(headerMap) ==
    LET value == getHeaderValueFromHeaderMap(headerMap, headerAuth)
    IN IF value # <<>> THEN parseBearer(value)
       ELSE [value |-> <<>>, err |-> errMissingAuthorization]

\* req.GetAttributes().GetRequest().GetHttp().GetHeaderMap(): nil when any
\* link of the chain is absent
bearerFromRequest(req) == bearerFromHeaderMap(req)

----------------------------------------------------------------------------
(* The verification key from the environment                                *)
(*                                                                          *)
(* The text of PUBLIC_KEY_PEM is a sequence of symbols: the characters      *)
(* backslash, "n" and newline, a whole marker line as one symbol, and the   *)
(* base64 body of a block as one blob symbol naming the DER bytes inside.   *)

backslash == "\\"
newline == "\n"
\* the two characters the deployment writes in place of a line break
escapedNewline == <<backslash, "n">>

PemTypes == {"PUBLIC KEY", "RSA PUBLIC KEY", "CERTIFICATE"}
pemBegin(type) == "-----BEGIN " \o type \o "-----"
pemEnd(type) == "-----END " \o type \o "-----"

\* what the DER bytes of a body are: a PKIX SubjectPublicKeyInfo holding an
\* RSA key or an EC key, a PKCS#1 RSA key, or nothing x509 can read
DerBlobs == {"pkixRSA1", "pkixRSA2", "pkixEC", "pkcs1RSA1", "derJunk"}

NilKey == "nil"

\* strings.ReplaceAll(s, old, new), for a non-empty old
RECURSIVE ReplaceAll(_, _, _)
ReplaceAll(s, old, new) ==
    IF Len(s) < Len(old) THEN s
    ELSE IF SubSeq(s, 1, Len(old)) = old
         THEN new \o ReplaceAll(SubSeq(s, Len(old) + 1, Len(s)), old, new)
    ELSE <<s[1]>> \o ReplaceAll(Tail(s), old, new)

\* the lines of a text: the runs of symbols between newlines
RECURSIVE LinesFrom(_, _, _)
LinesFrom(s, i, line) ==
    IF i > Len(s) THEN <<line>>
    ELSE IF s[i] = newline THEN <<line>> \o LinesFrom(s, i + 1, << >>)
    ELSE LinesFrom(s, i + 1, Append(line, s[i]))

Lines(s) == LinesFrom(s, 1, << >>)

NoBlock == [isNil |-> TRUE, Type |-> "", Bytes |-> "derJunk"]

\* pem.Decode: the first block that opens with a BEGIN line, holds one
\* base64 body and closes with the END line of the same type
pemDecode(text) ==
    LET ls == Lines(text)
        opens(i, t) ==
            /\ i + 2 <= Len(ls)
            /\ ls[i] = <<pemBegin(t)>>
            /\ Len(ls[i + 1]) = 1
            /\ ls[i + 1][1] \in DerBlobs
            /\ ls[i + 2] = <<pemEnd(t)>>
        starts == {i \in 1..Len(ls) : \E t \in PemTypes : opens(i, t)}
    IN IF starts = {} THEN NoBlock
       ELSE LET i == CHOOSE n \in starts : \A m \in starts : n <= m
            IN [isNil |-> FALSE,
                Type |-> CHOOSE t \in PemTypes : opens(i, t),
                Bytes |-> ls[i + 1][1]]

\* x509.ParsePKIXPublicKey: the key and its kind, or an error
ParsePKIXPublicKey(der) ==
    CASE der = "pkixRSA1" -> [kind |-> "rsa", key |-> "K1", err |-> "nil"]
      [] der = "pkixRSA2" -> [kind |-> "rsa", key |-> "K2", err |-> "nil"]
      [] der = "pkixEC" -> [kind |-> "ecdsa", key |-> "EC", err |-> "nil"]
      [] OTHER -> [kind |-> "", key |-> NilKey,
                   err |-> "x509: failed to parse public key"]

\* a parse that takes the key out of a block of any type
parseRSAPublicKey_AnyType(pemString) ==
    LET block == pemDecode(pemString)
        pub == ParsePKIXPublicKey(block.Bytes)
        fail(e) == [key |-> NilKey, err |-> e]
    IN IF block.isNil THEN fail("invalid PEM data")
       ELSE IF pub.err # "nil" THEN fail("parse PKIX public key: " \o pub.err)
       ELSE IF pub.kind # "rsa" THEN fail("invalid key type")
       ELSE [key |-> pub.key, err |-> "nil"]

parseRSAPublicKey(pemString) ==
    LET block == pemDecode(pemString)
        pub == ParsePKIXPublicKey(block.Bytes)
        fail(e) == [key |-> NilKey, err |-> e]
    IN IF block.isNil THEN fail("invalid PEM data")
       ELSE IF block.Type # "PUBLIC KEY"
            THEN fail("unsupported PEM type: " \o block.Type)
       ELSE IF pub.err # "nil" THEN fail("parse PKIX public key: " \o pub.err)
       ELSE IF pub.kind # "rsa" THEN fail("invalid key type")
       ELSE [key |-> pub.key, err |-> "nil"]

newCalloutServer(key) ==
    IF key = NilKey THEN [publicKey |-> NilKey, err |-> "public key is nil"]
    ELSE [publicKey |-> key, err |-> "nil"]

----------------------------------------------------------------------------
(* Compact tokens and jwxjwt.Parse                                          *)
(*                                                                          *)
(* A compact token is text: segments of base64url text joined by ".".  A    *)
(* segment that decodes to something meaningful is one blob symbol, whose   *)
(* content the tables below give; any other text decodes to nothing useful. *)
(* A signature blob names the scheme, the signing key and the signing input *)
(* it was made over, so verification recomputes it and compares.            *)

Keys == {"K1", "K2"}

\* the protected headers: base64url(JSON) blobs and the "alg" each declares
ProtectedBlobs == {"hdrRS256", "hdrHS256", "hdrNone"}

DecodeProtected(seg) ==
    IF Len(seg) = 1 /\ seg[1] \in ProtectedBlobs
    THEN [ok |-> TRUE,
          alg |-> CASE seg[1] = "hdrRS256" -> "RS256"
                    [] seg[1] = "hdrHS256" -> "HS256"
                    [] OTHER -> "none"]
    ELSE [ok |-> FALSE, alg |-> ""]

\* the payloads: base64url(JSON claims) blobs
PayloadBlobs == {"plAlice", "plBob", "plNoSub", "plEmptySub", "plNbf"}

NoClaims == [hasSub |-> FALSE, sub |-> "", hasIat |-> FALSE, iat |-> 0,
             hasExp |-> FALSE, exp |-> 0, hasNbf |-> FALSE, nbf |-> 0]

ClaimsOf(blob) ==
    CASE blob = "plAlice" ->
           [NoClaims EXCEPT !.hasSub = TRUE, !.sub = "alice",
                            !.hasIat = TRUE, !.iat = 1, !.hasExp = TRUE, !.exp = 3]
      [] blob = "plBob" ->
           [NoClaims EXCEPT !.hasSub = TRUE, !.sub = "bob",
                            !.hasIat = TRUE, !.iat = 0, !.hasExp = TRUE, !.exp = 2]
      [] blob = "plNoSub" ->
           [NoClaims EXCEPT !.hasIat = TRUE, !.iat = 1, !.hasExp = TRUE, !.exp = 3]
      [] blob = "plEmptySub" ->
           [NoClaims EXCEPT !.hasSub = TRUE, !.sub = "",
                            !.hasIat = TRUE, !.iat = 1, !.hasExp = TRUE, !.exp = 3]
      [] OTHER ->
           [NoClaims EXCEPT !.hasSub = TRUE, !.sub = "alice",
                            !.hasNbf = TRUE, !.nbf = 2]

DecodePayload(seg) ==
    IF Len(seg) = 1 /\ seg[1] \in PayloadBlobs
    THEN [ok |-> TRUE, claims |-> ClaimsOf(seg[1])]
    ELSE [ok |-> FALSE, claims |-> NoClaims]

\* the signature blob a signer produces over the signing input h "." p
SignatureBlob(scheme, key, h, p) ==
    "sig[" \o scheme \o "," \o key \o "," \o h \o "." \o p \o "]"

\* strings.Split(s, "."): the parts between the dots, from position i on,
\* with cur the part being read
RECURSIVE SplitFrom(_, _, _)
SplitFrom(s, i, cur) ==
    IF i > Len(s) THEN <<cur>>
    ELSE IF s[i] = "." THEN <<cur>> \o SplitFrom(s, i + 1, <<>>)
    ELSE SplitFrom(s, i + 1, Append(cur, s[i]))

SplitCompact(s) == SplitFrom(s, 1, <<>>)

\* a verification that checks the signature against the signing input and
\* the scheme, and against no particular key
VerifyWithKey_AnyKey(alg, key, h, p, sig) ==
    /\ Len(h) = 1
    /\ Len(p) = 1
    /\ \E k \in Keys : sig = <<SignatureBlob(alg, k, h[1], p[1])>>

\* the RS256 verification of a signature segment against the signing input,
\* under the algorithm and key the caller passed in jwxjwt.WithKey: the
\* scheme the token's own header declares is not consulted
VerifyWithKey(alg, key, h, p, sig) ==
    /\ Len(h) = 1
    /\ Len(p) = 1
    /\ sig = <<SignatureBlob(alg, key, h[1], p[1])>>

errJwsCompact == "failed to parse jws: invalid compact serialization format"
errJwsProtected == "failed to parse jws: failed to decode protected headers"
errJwsVerify == "could not verify message using any of the signatures or keys"
errJwtPayload == "failed to parse token: failed to unmarshal claims"
errJwtIat == "iat not satisfied"
errJwtExp == "exp not satisfied: token is expired"
errJwtNbf == "nbf not satisfied: token is not yet valid"

\* a parse without validation of the temporal claims
ValidateClaims_Off(c, clock) == "nil"

\* jwxjwt.WithValidate(true): the temporal claims against the clock
ValidateClaims(c, clock) ==
    IF c.hasIat /\ clock < c.iat THEN errJwtIat
    ELSE IF c.hasExp /\ ~(clock < c.exp) THEN errJwtExp
    ELSE IF c.hasNbf /\ clock < c.nbf THEN errJwtNbf
    ELSE "nil"

\* jwxjwt.Parse([]byte(bearer), WithKey(alg, key), WithValidate(true))
JwtParse(bearer, alg, key, clock) ==
    LET parts == SplitCompact(bearer)
        fail(e) == [err |-> e, claims |-> NoClaims]
    IN IF Len(parts) # 3 THEN fail(errJwsCompact)
       ELSE IF ~DecodeProtected(parts[1]).ok THEN fail(errJwsProtected)
       ELSE IF ~VerifyWithKey(alg, key, parts[1], parts[2], parts[3])
            THEN fail(errJwsVerify)
       ELSE IF ~DecodePayload(parts[2]).ok THEN fail(errJwtPayload)
       ELSE LET c == DecodePayload(parts[2]).claims
                e == ValidateClaims(c, clock)
            IN IF e # "nil" THEN fail(e) ELSE [err |-> "nil", claims |-> c]

----------------------------------------------------------------------------
(* Check adapter *)

\* an allow response whose instruction appends to the existing values
buildOkResponse_Appends(uid) ==
    [Status |-> [Code |-> codesOK, Message |-> ""],
     HttpResponse |->
        [type |-> "OkResponse",
         Headers |-> << [Key |-> headerUID, Value |-> uid, RawValue |-> uid,
                         Append |-> TRUE] >>,
         Status |-> 0,
         Body |-> ""]]

\* Headers holds the HeaderValueOption list of the OkHttpResponse, or of the
\* DeniedHttpResponse, whichever the response carries
buildOkResponse(uid) ==
    [Status |-> [Code |-> codesOK, Message |-> ""],
     HttpResponse |->
        [type |-> "OkResponse",
         Headers |-> << [Key |-> headerUID, Value |-> uid, RawValue |-> uid,
                         Append |-> FALSE] >>,
         Status |-> 0,
         Body |-> ""]]

\* a denial whose body is the bare reason
buildDeniedResponse_BareBody(code, msg) ==
    [Status |-> [Code |-> code, Message |-> msg],
     HttpResponse |->
        [type |-> "DeniedResponse",
         Headers |-> << >>,
         Status |-> StatusCodeForbidden,
         Body |-> msg]]

buildDeniedResponse(code, msg) ==
    [Status |-> [Code |-> code, Message |-> msg],
     HttpResponse |->
        [type |-> "DeniedResponse",
         Headers |-> << >>,
         Status |-> StatusCodeForbidden,
         Body |-> "denied: " \o msg]]

\* a Check that tests only whether the subject claim is there
Check_AbsentOnly(key, req, clock) ==
    LET bearer == bearerFromRequest(req)
        token == JwtParse(bearer.value, "RS256", key, clock)
        deny(msg) == [resp |-> buildDeniedResponse(codesPermissionDenied, msg),
                      err |-> "nil"]
    IN IF bearer.err # "nil" THEN deny(bearer.err)
       ELSE IF token.err # "nil" THEN deny(token.err)
       ELSE IF ~token.claims.hasSub THEN deny(errSubjectMissing)
       ELSE [resp |-> buildOkResponse(token.claims.sub), err |-> "nil"]

\* a Check that hands an extraction failure to gRPC as the call's error
Check_ExtractionFailureIsError(key, req, clock) ==
    LET bearer == bearerFromRequest(req)
        token == JwtParse(bearer.value, "RS256", key, clock)
        deny(msg) == [resp |-> buildDeniedResponse(codesPermissionDenied, msg),
                      err |-> "nil"]
    IN IF bearer.err # "nil"
       THEN [resp |-> buildDeniedResponse(codesPermissionDenied, bearer.err),
             err |-> bearer.err]
       ELSE IF token.err # "nil" THEN deny(token.err)
       ELSE IF ~token.claims.hasSub \/ token.claims.sub = ""
            THEN deny(errSubjectMissing)
       ELSE [resp |-> buildOkResponse(token.claims.sub), err |-> "nil"]

\* calloutServer.Check: the response and the error it returns
Check(key, req, clock) ==
    LET bearer == bearerFromRequest(req)
        token == JwtParse(bearer.value, "RS256", key, clock)
        deny(msg) == [resp |-> buildDeniedResponse(codesPermissionDenied, msg),
                      err |-> "nil"]
    IN IF bearer.err # "nil" THEN deny(bearer.err)
       ELSE IF token.err # "nil" THEN deny(token.err)
       ELSE IF ~token.claims.hasSub \/ token.claims.sub = ""
            THEN deny(errSubjectMissing)
       ELSE [resp |-> buildOkResponse(token.claims.sub), err |-> "nil"]

----------------------------------------------------------------------------
(* Process adapter: the request-headers event *)

buildRequestHeadersProcessingResponse(uid) ==
    [type |-> "RequestHeaders",
     Status |-> "CONTINUE",
     SetHeaders |-> << [Key |-> headerUID, Value |-> uid, RawValue |-> uid,
                        Append |-> FALSE] >>,
     HttpStatus |-> 0,
     Body |-> ""]

buildImmediateDeniedProcessingResponse(msg) ==
    [type |-> "ImmediateResponse",
     Status |-> "",
     SetHeaders |-> << >>,
     HttpStatus |-> StatusCodeForbidden,
     Body |-> "denied: " \o msg]

\* a handleRequestHeaders that lets a request through when the token does
\* not parse, with no identity
handleRequestHeaders_ParseErrorContinues(key, hdrs, clock) ==
    LET bearer == bearerFromHeaderMap(hdrs)
        token == JwtParse(bearer.value, "RS256", key, clock)
        deny(msg) == [resp |-> buildImmediateDeniedProcessingResponse(msg),
                      err |-> "nil"]
    IN IF bearer.err # "nil" THEN deny(bearer.err)
       ELSE IF token.err # "nil"
            THEN [resp |-> [buildRequestHeadersProcessingResponse("")
                                EXCEPT !.SetHeaders = << >>],
                  err |-> "nil"]
       ELSE IF ~token.claims.hasSub \/ token.claims.sub = ""
            THEN deny(errSubjectMissing)
       ELSE [resp |-> buildRequestHeadersProcessingResponse(token.claims.sub),
             err |-> "nil"]

\* a handleRequestHeaders with a wording of its own for the missing subject
handleRequestHeaders_OwnWording(key, hdrs, clock) ==
    LET bearer == bearerFromHeaderMap(hdrs)
        token == JwtParse(bearer.value, "RS256", key, clock)
        deny(msg) == [resp |-> buildImmediateDeniedProcessingResponse(msg),
                      err |-> "nil"]
    IN IF bearer.err # "nil" THEN deny(bearer.err)
       ELSE IF token.err # "nil" THEN deny(token.err)
       ELSE IF ~token.claims.hasSub \/ token.claims.sub = ""
            THEN deny("subject claim is empty")
       ELSE [resp |-> buildRequestHeadersProcessingResponse(token.claims.sub),
             err |-> "nil"]

\* calloutServer.handleRequestHeaders: the response and the error it returns
handleRequestHeaders(key, hdrs, clock) ==
    LET bearer == bearerFromHeaderMap(hdrs)
        token == JwtParse(bearer.value, "RS256", key, clock)
        deny(msg) == [resp |-> buildImmediateDeniedProcessingResponse(msg),
                      err |-> "nil"]
    IN IF bearer.err # "nil" THEN deny(bearer.err)
       ELSE IF token.err # "nil" THEN deny(token.err)
       ELSE IF ~token.claims.hasSub \/ token.claims.sub = ""
            THEN deny(errSubjectMissing)
       ELSE [resp |-> buildRequestHeadersProcessingResponse(token.claims.sub),
             err |-> "nil"]

----------------------------------------------------------------------------
(* Process adapter: the other requests of a stream *)

\* the request kinds: the six members of the ProcessingRequest oneof that
\* the code names, and a request whose oneof is not set
EventKinds ==
    {"RequestHeaders", "ResponseHeaders", "RequestBody", "ResponseBody",
     "RequestTrailers", "ResponseTrailers", "Unset"}

\* a nil *ProcessingResponse
NilResponse ==
    [type |-> "nil", Status |-> "", SetHeaders |-> << >>, HttpStatus |-> 0,
     Body |-> ""]

\* a HeadersResponse or BodyResponse whose CommonResponse is CONTINUE with
\* no mutation, or an empty TrailersResponse
PlainResponse(type, status) ==
    [type |-> type, Status |-> status, SetHeaders |-> << >>, HttpStatus |-> 0,
     Body |-> ""]

\* a switch without the two trailers cases
buildContinueProcessingResponse_NoTrailers(req) ==
    CASE req.kind = "RequestHeaders" -> PlainResponse("RequestHeaders", "CONTINUE")
      [] req.kind = "ResponseHeaders" -> PlainResponse("ResponseHeaders", "CONTINUE")
      [] req.kind = "RequestBody" -> PlainResponse("RequestBody", "CONTINUE")
      [] req.kind = "ResponseBody" -> PlainResponse("ResponseBody", "CONTINUE")
      [] OTHER -> NilResponse

\* a switch whose request-body case builds the headers response
buildContinueProcessingResponse_BodyAsHeaders(req) ==
    CASE req.kind = "RequestHeaders" -> PlainResponse("RequestHeaders", "CONTINUE")
      [] req.kind = "ResponseHeaders" -> PlainResponse("ResponseHeaders", "CONTINUE")
      [] req.kind = "RequestBody" -> PlainResponse("RequestHeaders", "CONTINUE")
      [] req.kind = "ResponseBody" -> PlainResponse("ResponseBody", "CONTINUE")
      [] req.kind = "RequestTrailers" -> PlainResponse("RequestTrailers", "")
      [] req.kind = "ResponseTrailers" -> PlainResponse("ResponseTrailers", "")
      [] OTHER -> NilResponse

buildContinueProcessingResponse(req) ==
    CASE req.kind = "RequestHeaders" -> PlainResponse("RequestHeaders", "CONTINUE")
      [] req.kind = "ResponseHeaders" -> PlainResponse("ResponseHeaders", "CONTINUE")
      [] req.kind = "RequestBody" -> PlainResponse("RequestBody", "CONTINUE")
      [] req.kind = "ResponseBody" -> PlainResponse("ResponseBody", "CONTINUE")
      [] req.kind = "RequestTrailers" -> PlainResponse("RequestTrailers", "")
      [] req.kind = "ResponseTrailers" -> PlainResponse("ResponseTrailers", "")
      [] OTHER -> NilResponse

\* req.GetRequestHeaders() is non-nil exactly for a request of the
\* request-headers kind: a message decoded from the wire never holds a nil
\* HttpHeaders in a set oneof
handleProcessingRequest(key, req, clock) ==
    IF req.kind = "RequestHeaders"
    THEN handleRequestHeaders(key, req.headers, clock)
    ELSE [resp |-> buildContinueProcessingResponse(req), err |-> "nil"]

----------------------------------------------------------------------------
(* The wasm plugin (plugins/wasm-jwt/main.go) *)

\* a nil *pluginState, and the one NewPluginContext makes
NilPluginState == [isNil |-> TRUE, publicKey |-> NilKey, configErr |-> "nil"]
EmptyPluginState == [isNil |-> FALSE, publicKey |-> NilKey, configErr |-> "nil"]

\* a loadConfig that takes the key from a PEM block of any type
loadConfig_AnyBlockType(cfg) ==
    LET pemText == ReplaceAll(cfg.pem, escapedNewline, <<newline>>)
        block == pemDecode(pemText)
        pub == ParsePKIXPublicKey(block.Bytes)
        fail(e) == [state |-> NilPluginState, err |-> e]
    IN IF cfg.status # "OK" THEN fail(cfg.status)
       ELSE IF cfg.raw = "empty" THEN [state |-> NilPluginState, err |-> "nil"]
       ELSE IF cfg.raw # "json" THEN fail("invalid character")
       ELSE IF block.isNil THEN fail("public key PEM is invalid")
       ELSE IF pub.err # "nil" THEN fail(pub.err)
       ELSE IF pub.kind # "rsa" THEN fail("public key type is invalid")
       ELSE [state |-> [isNil |-> FALSE, publicKey |-> pub.key, configErr |-> "nil"],
             err |-> "nil"]

\* loadConfig on a plugin configuration cfg: status is what
\* GetPluginConfiguration returns, raw the kind of bytes it gives, pem the
\* public_key_pem field of the JSON
loadConfig(cfg) ==
    LET pemText == ReplaceAll(cfg.pem, escapedNewline, <<newline>>)
        block == pemDecode(pemText)
        pub == ParsePKIXPublicKey(block.Bytes)
        fail(e) == [state |-> NilPluginState, err |-> e]
    IN IF cfg.status # "OK" THEN fail(cfg.status)
       ELSE IF cfg.raw = "empty" THEN [state |-> NilPluginState, err |-> "nil"]
       ELSE IF cfg.raw # "json" THEN fail("invalid character")
       ELSE IF block.isNil \/ block.Type # "PUBLIC KEY"
            THEN fail("public key PEM is invalid")
       ELSE IF pub.err # "nil" THEN fail(pub.err)
       ELSE IF pub.kind # "rsa" THEN fail("public key type is invalid")
       ELSE [state |-> [isNil |-> FALSE, publicKey |-> pub.key, configErr |-> "nil"],
             err |-> "nil"]

\* pluginContext.OnPluginStart: the pluginState it leaves in the context
OnPluginStartState(state, cfg) ==
    LET loaded == loadConfig(cfg)
    IN IF loaded.err # "nil" THEN [state EXCEPT !.configErr = loaded.err]
       ELSE loaded.state

\* pluginContext.OnPluginStart: the status it returns, with a
\* configuration that loads and with one that does not
OnPluginStartStatus(cfg) ==
    IF loadConfig(cfg).err # "nil" THEN "OnPluginStartStatusOK"
    ELSE "OnPluginStartStatusOK"

\* proxywasm.GetHttpRequestHeader(key): the value of the first header of
\* that name, or the status the host answers with
GetHttpRequestHeader(hs, key, status) ==
    LET found == {i \in 1..Len(hs) : EqualFold(hs[i].Key, key)}
        first == CHOOSE i \in found : \A j \in found : i <= j
    IN IF status # "OK" THEN [value |-> << >>, err |-> status]
       ELSE IF found = {} THEN [value |-> << >>, err |-> "NotFound"]
       ELSE [value |-> IF hs[first].Value # << >> THEN hs[first].Value
                       ELSE hs[first].RawValue,
             err |-> "nil"]

\* the request headers after ReplaceHttpRequestHeader(key, value), and
\* after AddHttpRequestHeader(key, value), when the host carries them out
ReplacedHeader(hs, key, value) ==
    LET IsOther(e) == ~EqualFold(e.Key, key)
    IN Append(SelectSeq(hs, IsOther), [Key |-> key, Value |-> value, RawValue |-> << >>])

AddedHeader(hs, key, value) ==
    Append(hs, [Key |-> key, Value |-> value, RawValue |-> << >>])

\* httpContext.deny: SendHttpResponse(403, content-type: text/plain, reason)
LocalResponse(reason) ==
    [status |-> 403, headers |-> <<<<"content-type", "text/plain">>>>, body |-> reason]

\* httpContext.OnHttpRequestHeaders on the request headers hs, with the
\* statuses host.get, host.replace and host.add of the three host calls:
\* the action returned, the local responses sent and the request headers
\* that go on downstream
OnHttpRequestHeaders(state, hs, host) ==
    LET deny(reason) ==
            [action |-> "Pause", sent |-> <<LocalResponse(reason)>>, forwarded |-> hs]
        authHeader == GetHttpRequestHeader(hs, headerAuth, host.get)
        token == TrimPrefix(authHeader.value, bearerPrefix)
        parts == SplitCompact(token)
        header == DecodeProtected(parts[1])
        payload == DecodePayload(parts[2])
        sub == payload.claims.sub
        forwarded ==
            IF host.replace = "OK" THEN ReplacedHeader(hs, headerUID, sub)
            ELSE IF host.replace = "NotFound" /\ host.add = "OK"
                 THEN AddedHeader(hs, headerUID, sub)
            ELSE hs
    IN IF state.isNil \/ state.configErr # "nil" \/ state.publicKey = NilKey
       THEN deny("denied: plugin config is invalid")
       ELSE IF authHeader.err = "NotFound"
            THEN deny("denied: authorization header is missing")
       ELSE IF authHeader.err # "nil"
            THEN deny("denied: authorization header lookup failed")
       ELSE IF authHeader.value = << >>
            THEN deny("denied: authorization header is missing")
       ELSE IF ~HasPrefix(authHeader.value, bearerPrefix)
            THEN deny("denied: authorization header is invalid")
       ELSE IF Len(parts) # 3 THEN deny("denied: token format is invalid")
       ELSE IF ~header.ok \/ header.alg # "RS256"
            THEN deny("denied: token header is invalid")
       ELSE IF ~payload.ok THEN deny("denied: token payload is invalid")
       ELSE IF sub = "" THEN deny("denied: subject is missing")
       ELSE IF ~VerifyWithKey("RS256", state.publicKey, parts[1], parts[2], parts[3])
            THEN deny("denied: token signature is invalid")
       ELSE [action |-> "Continue", sent |-> << >>, forwarded |-> forwarded]

----------------------------------------------------------------------------
(* The inputs: tokens, header entries and header collections *)

Token(h, p, sig) == <<h, ".", p, ".">> \o sig

HeaderSymbols == ProtectedBlobs \cup {"hdrJunk"}
PayloadSymbols == PayloadBlobs \cup {"plJunk"}

\* the signature segments tried on a token with header h and payload p: made
\* by either RSA key, made with an HMAC secret, absent, and lifted from
\* another token
SignaturesFor(h, p) ==
    {<<SignatureBlob("RS256", k, h, p)>> : k \in Keys}
        \cup {<<SignatureBlob("HS256", "secret", h, p)>>,
              << >>,
              <<SignatureBlob("RS256", "K1", "hdrRS256", "plAlice")>>}

ThreeSegmentTokens ==
    UNION {UNION {{Token(h, p, sig) : sig \in SignaturesFor(h, p)}
                  : p \in PayloadSymbols} : h \in HeaderSymbols}

GoodToken(k, p) == Token("hdrRS256", p, <<SignatureBlob("RS256", k, "hdrRS256", p)>>)

MalformedTokens ==
    {<<"a", "b", "c", ".", "d", "e", "f">>,
     <<"hdrRS256", ".", "plAlice">>,
     GoodToken("K1", "plAlice") \o <<".", "x">>,
     << >>}

Tokens == ThreeSegmentTokens \cup MalformedTokens

tokenPrefix == <<"T", "o", "k", "e", "n", " ">>
lowerBearerPrefix == <<"b", "e", "a", "r", "e", "r", " ">>
AuthorizationKey ==
    <<"A", "u", "t", "h", "o", "r", "i", "z", "a", "t", "i", "o", "n">>

Entry(k, v, raw) == [Key |-> k, Value |-> v, RawValue |-> raw]

\* one authorization entry per token and per near-miss of the prefix
TokenEntries ==
    {Entry(headerAuth, bearerPrefix \o t, << >>) : t \in Tokens}
        \cup {Entry(headerAuth, lowerBearerPrefix \o GoodToken(k, "plAlice"), << >>)
              : k \in Keys}
        \cup {Entry(headerAuth, <<"B", "e", "a", "r", "e", "r">>, << >>),
              Entry(headerAuth, <<" ">> \o bearerPrefix \o GoodToken("K1", "plAlice"),
                    << >>)}

\* the entries that header collections of several entries are built from
CoreEntries ==
    {Entry(headerAuth, << >>, << >>),
     Entry(headerAuth, bearerPrefix \o GoodToken("K1", "plAlice"), << >>),
     Entry(headerAuth, << >>, bearerPrefix \o GoodToken("K1", "plBob")),
     Entry(headerAuth, tokenPrefix \o GoodToken("K1", "plAlice"), << >>),
     Entry(headerAuth, bearerPrefix \o GoodToken("K1", "plBob"),
           tokenPrefix \o GoodToken("K1", "plAlice")),
     Entry(AuthorizationKey, bearerPrefix \o GoodToken("K2", "plAlice"), << >>),
     Entry(AuthorizationKey, << >>, tokenPrefix \o GoodToken("K1", "plBob")),
     Entry(headerUID, <<"m", "a", "l">>, << >>)}

SeqsUpTo(S, n) == UNION {[1..k -> S] : k \in 0..n}

NilHeaderMap == [isNil |-> TRUE, Headers |-> << >>]

HeaderMaps ==
    {NilHeaderMap}
        \cup {[isNil |-> FALSE, Headers |-> hs] : hs \in SeqsUpTo(CoreEntries, MaxHeaders)}
        \cup {[isNil |-> FALSE, Headers |-> <<e>>] : e \in TokenEntries}

\* the header collections of the request-headers events of a stream: a
\* token of each subject signed by the first key, and no header at all
StreamHeaderMaps ==
    {[isNil |-> FALSE,
      Headers |-> <<Entry(headerAuth, bearerPrefix \o GoodToken("K1", p), << >>)>>]
        : p \in {"plAlice", "plBob"}}
        \cup {[isNil |-> FALSE, Headers |-> << >>]}

Event(kind, hm) == [kind |-> kind, headers |-> hm]

Events ==
    {Event("RequestHeaders", hm) : hm \in StreamHeaderMaps}
        \cup {Event(k, NilHeaderMap) : k \in EventKinds \ {"RequestHeaders"}}

\* the errors stream.Recv and stream.Send return when the transport fails
TransportErrors == {"rpc error: code = Canceled desc = context canceled"}

\* a PEM block of one body, its three lines joined by nl
PemOf(type, der, nl) ==
    <<pemBegin(type)>> \o nl \o <<der>> \o nl \o <<pemEnd(type)>>

PkixOf(key) == IF key = "K1" THEN "pkixRSA1" ELSE "pkixRSA2"

\* the values of PUBLIC_KEY_PEM tried: unset; a PUBLIC KEY block around each
\* kind of body, with escaped or real line breaks, with and without one
\* at the end; blocks of other types; a block whose END does not match; a
\* body with no markers; a block with both kinds of line break
PemInputs ==
    {<< >>}
        \cup UNION {UNION {{PemOf("PUBLIC KEY", d, nl), PemOf("PUBLIC KEY", d, nl) \o nl}
                           : nl \in {escapedNewline, <<newline>>}}
                    : d \in {"pkixRSA1", "pkixRSA2", "pkixEC", "derJunk"}}
        \cup {PemOf("RSA PUBLIC KEY", "pkcs1RSA1", escapedNewline),
              PemOf("CERTIFICATE", "pkixRSA1", escapedNewline),
              <<pemBegin("PUBLIC KEY")>> \o escapedNewline \o <<"pkixRSA1">>
                  \o escapedNewline \o <<pemEnd("CERTIFICATE")>>,
              <<"pkixRSA1">>,
              <<pemBegin("PUBLIC KEY")>> \o escapedNewline \o <<"pkixRSA2">>
                  \o <<newline>> \o <<pemEnd("PUBLIC KEY")>>}

\* the plugin configurations tried: the JSON holding the key of the
\* callout server, and the ones with no usable key
PluginConfig(status, raw, pem) == [status |-> status, raw |-> raw, pem |-> pem]

GoodPluginConfig(key) ==
    PluginConfig("OK", "json", PemOf("PUBLIC KEY", PkixOf(key), escapedNewline))

BadPluginConfigs ==
    {PluginConfig("InternalFailure", "empty", << >>),
     PluginConfig("OK", "empty", << >>),
     PluginConfig("OK", "notJSON", << >>),
     PluginConfig("OK", "json", << >>),
     PluginConfig("OK", "json", PemOf("CERTIFICATE", "pkixRSA1", escapedNewline)),
     PluginConfig("OK", "json", PemOf("PUBLIC KEY", "pkixEC", escapedNewline)),
     PluginConfig("OK", "json", PemOf("PUBLIC KEY", "derJunk", <<newline>>))}

\* the statuses of the three host calls of one callback
HostResult(get, replace, add) == [get |-> get, replace |-> replace, add |-> add]

HostResults ==
    {HostResult("OK", "OK", "OK"),
     HostResult("InternalFailure", "OK", "OK"),
     HostResult("OK", "NotFound", "OK"),
     HostResult("OK", "NotFound", "InternalFailure"),
     HostResult("OK", "InternalFailure", "OK")}

\* the requests given to the plugin: one authorization header per token and
\* near-miss, no header, and a token behind an x-uid the client sent
WasmHeaderMaps ==
    {[isNil |-> FALSE, Headers |-> <<e>>] : e \in TokenEntries}
        \cup {[isNil |-> FALSE, Headers |-> << >>],
              [isNil |-> FALSE, Headers |-> <<Entry(headerAuth, << >>, << >>)>>]}
        \cup {[isNil |-> FALSE,
               Headers |-> <<Entry(headerUID, <<"m", "a", "l">>, << >>),
                             Entry(headerAuth, bearerPrefix \o GoodToken(k, "plBob"), << >>)>>]
              : k \in Keys}

Services == {"envoy.service.auth.v3.Authorization",
             "envoy.service.ext_proc.v3.ExternalProcessor"}

----------------------------------------------------------------------------
(* The state machine *)

\* no plugin is loaded
NoPluginCall ==
    [done |-> FALSE, host |-> HostResult("OK", "OK", "OK"), action |-> "",
     sent |-> << >>, forwarded |-> << >>]
NoPlugin ==
    [pc |-> "absent", config |-> PluginConfig("OK", "empty", << >>),
     status |-> "none", state |-> NilPluginState, call |-> NoPluginCall]

\* main before its first statement, in an environment with these variables
Started(portEnv, pemEnv) ==
    [pc |-> "start", PORT |-> portEnv, PUBLIC_KEY_PEM |-> pemEnv,
     port |-> "", registered |-> {}, fatal |-> "none"]

\* main inside grpcServer.Serve, started with the key in PUBLIC_KEY_PEM
Serving(key) ==
    [pc |-> "serving", PORT |-> "",
     PUBLIC_KEY_PEM |-> PemOf("PUBLIC KEY", PkixOf(key), escapedNewline),
     port |-> "8080", registered |-> Services, fatal |-> "none"]

\* log.Fatalf: the message is logged and the process exits
Fatalf(b, msg) == [b EXCEPT !.pc = "exited", !.fatal = msg]

NoBearer == [value |-> << >>, err |-> "nil"]
NoCall == [done |-> FALSE, at |-> 0, bearer |-> NoBearer,
           resp |-> buildDeniedResponse(0, ""), err |-> "nil"]
NoProc == [done |-> FALSE, at |-> 0, bearer |-> NoBearer,
           resp |-> buildImmediateDeniedProcessingResponse(""), err |-> "nil"]

\* a stream on which Process has not received yet.  fault is the error the
\* transport gave to the Recv or Send named by faultAt
NoStream ==
    [state |-> "Open", ret |-> "running", inbound |-> << >>, sent |-> << >>,
     faultAt |-> "none", fault |-> "nil"]

\* no request in hand
NoRequest == [kind |-> "none", headers |-> NilHeaderMap]

\* the streams served at the same time
StreamIds == {"s1", "s2"}

\* a Process call that has just started
NoConcStream ==
    [state |-> "Open", ret |-> "running", pending |-> NoRequest,
     inbound |-> << >>, sent |-> << >>]

NoConc == [s \in StreamIds |-> NoConcStream]

\* newCalloutServer stores a non-nil key; the proxy then presents a request
Init ==
    /\ publicKey \in Keys
    /\ now = 0
    /\ headers \in HeaderMaps
    /\ check = NoCall
    /\ proc = NoProc
    /\ stream = NoStream
    /\ boot = Serving(publicKey)
    /\ wasm = NoPlugin
    /\ conc = NoConc

\* a Check that remembers a validated request and refuses it a second time
CallCheck_RejectsReplay ==
    /\ LET r == IF check.done \/ proc.done
                THEN [resp |-> buildDeniedResponse(codesPermissionDenied,
                                                   "token already used"),
                      err |-> "nil"]
                ELSE Check(publicKey, headers, now)
       IN check' = [done |-> TRUE, at |-> now,
                    bearer |-> bearerFromRequest(headers),
                    resp |-> r.resp, err |-> r.err]
    /\ UNCHANGED <<publicKey, now, headers, proc, stream, boot, wasm, conc>>

\* the proxy calls Check with the request's header collection
CallCheck ==
    /\ LET r == Check(publicKey, headers, now)
       IN check' = [done |-> TRUE, at |-> now,
                    bearer |-> bearerFromRequest(headers),
                    resp |-> r.resp, err |-> r.err]
    /\ UNCHANGED <<publicKey, now, headers, proc, stream, boot, wasm, conc>>

\* Process receives the request-headers event carrying the header collection
CallHandleRequestHeaders ==
    /\ LET r == handleRequestHeaders(publicKey, headers, now)
       IN proc' = [done |-> TRUE, at |-> now,
                   bearer |-> bearerFromHeaderMap(headers),
                   resp |-> r.resp, err |-> r.err]
    /\ UNCHANGED <<publicKey, now, headers, check, stream, boot, wasm, conc>>

\* time passes
Tick ==
    /\ now < MaxTime
    /\ now' = now + 1
    /\ UNCHANGED <<publicKey, headers, check, proc, stream, boot, wasm, conc>>

Next == CallCheck \/ CallHandleRequestHeaders \/ Tick

Spec == Init /\ [][Next]_vars

----------------------------------------------------------------------------
(* The Process stream: one action per way an iteration of the loop ends *)

\* the proxy opens a stream to a server holding its key
InitStream ==
    /\ publicKey \in Keys
    /\ now = 0
    /\ headers = NilHeaderMap
    /\ check = NoCall
    /\ proc = NoProc
    /\ stream = NoStream
    /\ boot = Serving(publicKey)
    /\ wasm = NoPlugin
    /\ conc = NoConc

\* stream.Recv returns io.EOF: Process returns nil
ProcessRecvEOF ==
    /\ stream.state = "Open"
    /\ stream' = [stream EXCEPT !.state = "Closed", !.ret = "nil",
                                !.faultAt = "eof"]
    /\ UNCHANGED <<publicKey, now, headers, check, proc, boot, wasm, conc>>

\* stream.Recv returns another error: Process returns it
ProcessRecvError ==
    /\ stream.state = "Open"
    /\ \E e \in TransportErrors :
          stream' = [stream EXCEPT !.state = "Closed", !.ret = e,
                                   !.faultAt = "recv", !.fault = e]
    /\ UNCHANGED <<publicKey, now, headers, check, proc, boot, wasm, conc>>

\* an iteration that logs a failed stream.Send and goes on receiving
ProcessEvent_IgnoresSendError ==
    /\ stream.state = "Open"
    /\ Len(stream.inbound) < MaxEvents
    /\ \E req \in Events, sendErr \in {"nil"} \cup TransportErrors :
          LET r == handleProcessingRequest(publicKey, req, now)
              received == [stream EXCEPT !.inbound = Append(@, req)]
          IN IF r.err # "nil"
             THEN stream' = [received EXCEPT !.state = "Closed", !.ret = r.err]
             ELSE IF r.resp = NilResponse
             THEN stream' = received
             ELSE IF sendErr # "nil"
             THEN stream' = [received EXCEPT !.sent = Append(@, r.resp),
                                             !.faultAt = "send",
                                             !.fault = sendErr]
             ELSE stream' = [received EXCEPT !.sent = Append(@, r.resp)]
    /\ UNCHANGED <<publicKey, now, headers, check, proc, boot, wasm, conc>>

\* stream.Recv returns a request: it is handled, and the response, unless
\* nil, is handed to stream.Send, which returns sendErr
ProcessEvent ==
    /\ stream.state = "Open"
    /\ Len(stream.inbound) < MaxEvents
    /\ \E req \in Events, sendErr \in {"nil"} \cup TransportErrors :
          LET r == handleProcessingRequest(publicKey, req, now)
              received == [stream EXCEPT !.inbound = Append(@, req)]
          IN IF r.err # "nil"
             THEN stream' = [received EXCEPT !.state = "Closed", !.ret = r.err]
             ELSE IF r.resp = NilResponse
             THEN stream' = received
             ELSE IF sendErr # "nil"
             THEN stream' = [received EXCEPT !.sent = Append(@, r.resp),
                                             !.state = "Closed",
                                             !.ret = sendErr,
                                             !.faultAt = "send",
                                             !.fault = sendErr]
             ELSE stream' = [received EXCEPT !.sent = Append(@, r.resp)]
    /\ UNCHANGED <<publicKey, now, headers, check, proc, boot, wasm, conc>>

\* time passes while the stream is open
StreamTick ==
    /\ stream.state = "Open"
    /\ now < MaxTime
    /\ now' = now + 1
    /\ UNCHANGED <<publicKey, headers, check, proc, stream, boot, wasm, conc>>

NextStream == ProcessRecvEOF \/ ProcessRecvError \/ ProcessEvent \/ StreamTick

SpecStream == InitStream /\ [][NextStream]_vars

----------------------------------------------------------------------------
(* The wasm plugin beside the callout server, on the same request *)

\* NewPluginContext has made the plugin context; the callout server holds
\* its key.  The requests of every shape go to a plugin configured with
\* that key, a few of them to one whose configuration is unusable
InitWasm ==
    /\ publicKey \in Keys
    /\ now = 0
    /\ check = NoCall
    /\ proc = NoProc
    /\ stream = NoStream
    /\ boot = Serving(publicKey)
    /\ conc = NoConc
    /\ \E cfg \in {GoodPluginConfig(publicKey)} \cup BadPluginConfigs :
          /\ wasm = [pc |-> "created", config |-> cfg, status |-> "none",
                     state |-> EmptyPluginState, call |-> NoPluginCall]
          /\ IF cfg \in BadPluginConfigs THEN headers \in StreamHeaderMaps
             ELSE headers \in WasmHeaderMaps

\* pluginContext.OnPluginStart, which always reports OnPluginStartStatusOK
OnPluginStart ==
    /\ wasm.pc = "created"
    /\ wasm' = [wasm EXCEPT !.pc = "started",
                            !.status = OnPluginStartStatus(wasm.config),
                            !.state = OnPluginStartState(wasm.state, wasm.config)]
    /\ UNCHANGED <<publicKey, now, headers, check, proc, stream, boot, conc>>

\* NewHttpContext hands the plugin state to the stream context, and the
\* host calls OnHttpRequestHeaders for the request
CallOnHttpRequestHeaders ==
    /\ wasm.pc = "started"
    /\ \E host \in HostResults :
          LET r == OnHttpRequestHeaders(wasm.state, headers.Headers, host)
          IN wasm' = [wasm EXCEPT !.call = [done |-> TRUE, host |-> host,
                                            action |-> r.action,
                                            sent |-> r.sent,
                                            forwarded |-> r.forwarded]]
    /\ UNCHANGED <<publicKey, now, headers, check, proc, stream, boot, conc>>

NextWasm == OnPluginStart \/ CallOnHttpRequestHeaders \/ CallCheck \/ Tick

SpecWasm == InitWasm /\ [][NextWasm]_vars

----------------------------------------------------------------------------
(* The start of the server: main, and the calls it serves afterwards *)

InitBoot ==
    /\ publicKey = NilKey
    /\ now = 0
    /\ headers \in StreamHeaderMaps
    /\ check = NoCall
    /\ proc = NoProc
    /\ stream = NoStream
    /\ wasm = NoPlugin
    /\ conc = NoConc
    /\ \E portEnv \in {"", "9000"}, pemEnv \in PemInputs :
          boot = Started(portEnv, pemEnv)

\* main up to newCalloutServer: the port, the key text with its escaped
\* line breaks replaced, the key parsed from it, the server holding it
MainConfig ==
    /\ boot.pc = "start"
    /\ LET b == [boot EXCEPT !.port = IF boot.PORT = "" THEN "8080" ELSE boot.PORT]
           publicKeyPEM == ReplaceAll(boot.PUBLIC_KEY_PEM, escapedNewline, <<newline>>)
           parsed == parseRSAPublicKey(publicKeyPEM)
           server == newCalloutServer(parsed.key)
       IN IF boot.PUBLIC_KEY_PEM = << >>
          THEN /\ boot' = Fatalf(b, "config error: PUBLIC_KEY_PEM is required")
               /\ UNCHANGED publicKey
          ELSE IF parsed.err # "nil"
          THEN /\ boot' = Fatalf(b, "read public key error: " \o parsed.err)
               /\ UNCHANGED publicKey
          ELSE IF server.err # "nil"
          THEN /\ boot' = Fatalf(b, "callout server error: " \o server.err)
               /\ UNCHANGED publicKey
          ELSE /\ boot' = [b EXCEPT !.pc = "configured"]
               /\ publicKey' = server.publicKey
    /\ UNCHANGED <<now, headers, check, proc, stream, wasm, conc>>

\* net.Listen on the port, which the system grants or refuses
MainListen ==
    /\ boot.pc = "configured"
    /\ \E granted \in BOOLEAN :
          boot' = IF granted THEN [boot EXCEPT !.pc = "listening"]
                  ELSE Fatalf(boot, "listen error")
    /\ UNCHANGED <<publicKey, now, headers, check, proc, stream, wasm, conc>>

\* the two services are registered and grpcServer.Serve takes the listener
MainServe ==
    /\ boot.pc = "listening"
    /\ boot' = [boot EXCEPT !.pc = "serving", !.registered = Services]
    /\ UNCHANGED <<publicKey, now, headers, check, proc, stream, wasm, conc>>

\* grpcServer.Serve returns an error
MainServeError ==
    /\ boot.pc = "serving"
    /\ boot' = Fatalf(boot, "grpc server error")
    /\ UNCHANGED <<publicKey, now, headers, check, proc, stream, wasm, conc>>

\* the serving process answers a Check call
ServeCheck ==
    /\ boot.pc = "serving"
    /\ CallCheck

\* the serving process handles a request-headers event
ServeHandleRequestHeaders ==
    /\ boot.pc = "serving"
    /\ CallHandleRequestHeaders

NextBoot ==
    \/ MainConfig
    \/ MainListen
    \/ MainServe
    \/ MainServeError
    \/ ServeCheck
    \/ ServeHandleRequestHeaders

SpecBoot == InitBoot /\ [][NextBoot]_vars

----------------------------------------------------------------------------
(* Several RPCs at once.  grpc-go runs every RPC in a goroutine of its own *)
(* on the one calloutServer; the goroutines of Process interleave between  *)
(* stream.Recv and stream.Send, and Check calls run in between.            *)

\* the requests the concurrent streams receive: request headers with a
\* token signed by the first key, request headers without a token, and a
\* request body
ConcEvents ==
    {Event("RequestHeaders",
           [isNil |-> FALSE,
            Headers |-> <<Entry(headerAuth, bearerPrefix \o GoodToken("K1", "plAlice"),
                                << >>)>>]),
     Event("RequestHeaders", [isNil |-> FALSE, Headers |-> << >>]),
     Event("RequestBody", NilHeaderMap)}

InitConc ==
    /\ publicKey \in Keys
    /\ now = 1
    /\ headers \in StreamHeaderMaps
    /\ check = NoCall
    /\ proc = NoProc
    /\ stream = NoStream
    /\ boot = Serving(publicKey)
    /\ wasm = NoPlugin
    /\ conc = NoConc

\* stream.Recv of one stream returns a request
ConcRecv ==
    /\ \E s \in StreamIds :
          /\ conc[s].state = "Open"
          /\ conc[s].pending = NoRequest
          /\ Len(conc[s].inbound) < MaxConcEvents
          /\ \E req \in ConcEvents :
                conc' = [conc EXCEPT ![s].pending = req,
                                     ![s].inbound = Append(@, req)]
    /\ UNCHANGED <<publicKey, now, headers, check, proc, stream, boot, wasm>>

\* stream.Recv of one stream returns io.EOF: its Process returns nil
ConcRecvEOF ==
    /\ \E s \in StreamIds :
          /\ conc[s].state = "Open"
          /\ conc[s].pending = NoRequest
          /\ conc' = [conc EXCEPT ![s].state = "Closed", ![s].ret = "nil"]
    /\ UNCHANGED <<publicKey, now, headers, check, proc, stream, boot, wasm>>

\* a transport error that ends every open stream of the server
ConcRecvError_ClosesAll ==
    /\ \E s \in StreamIds :
          /\ conc[s].state = "Open"
          /\ conc[s].pending = NoRequest
          /\ \E e \in TransportErrors :
                conc' = [o \in StreamIds |->
                            IF conc[o].state = "Open"
                            THEN [conc[o] EXCEPT !.state = "Closed", !.ret = e]
                            ELSE conc[o]]
    /\ UNCHANGED <<publicKey, now, headers, check, proc, stream, boot, wasm>>

\* stream.Recv of one stream returns another error: its Process returns it
ConcRecvError ==
    /\ \E s \in StreamIds :
          /\ conc[s].state = "Open"
          /\ conc[s].pending = NoRequest
          /\ \E e \in TransportErrors :
                conc' = [conc EXCEPT ![s].state = "Closed", ![s].ret = e]
    /\ UNCHANGED <<publicKey, now, headers, check, proc, stream, boot, wasm>>

\* one stream handles the request in hand, reading s.publicKey, and hands
\* the response, unless nil, to stream.Send, which returns sendErr
ConcHandle ==
    /\ \E s \in StreamIds :
          /\ conc[s].state = "Open"
          /\ conc[s].pending # NoRequest
          /\ \E sendErr \in {"nil"} \cup TransportErrors :
                LET r == handleProcessingRequest(publicKey, conc[s].pending, now)
                    handled == [conc[s] EXCEPT !.pending = NoRequest]
                IN IF r.err # "nil"
                   THEN conc' = [conc EXCEPT ![s] =
                                    [handled EXCEPT !.state = "Closed", !.ret = r.err]]
                   ELSE IF r.resp = NilResponse
                   THEN conc' = [conc EXCEPT ![s] = handled]
                   ELSE IF sendErr # "nil"
                   THEN conc' = [conc EXCEPT ![s] =
                                    [handled EXCEPT !.sent = Append(@, r.resp),
                                                    !.state = "Closed",
                                                    !.ret = sendErr]]
                   ELSE conc' = [conc EXCEPT ![s] =
                                    [handled EXCEPT !.sent = Append(@, r.resp)]]
    /\ UNCHANGED <<publicKey, now, headers, check, proc, stream, boot, wasm>>

NextConc == ConcRecv \/ ConcRecvEOF \/ ConcRecvError \/ ConcHandle \/ CallCheck

SpecConc == InitConc /\ [][NextConc]_vars

----------------------------------------------------------------------------
(* Vocabulary of the properties *)

MatchesAuth(e) == EqualFold(e.Key, headerAuth)

\* the request carries token t as `authorization: Bearer <t>`, in its only
\* authorization entry
PresentedBearer(t) ==
    /\ ~headers.isNil
    /\ \E i \in 1..Len(headers.Headers) :
          /\ MatchesAuth(headers.Headers[i])
          /\ headers.Headers[i].Value = bearerPrefix \o t
          /\ \A j \in 1..Len(headers.Headers) :
                j # i => ~MatchesAuth(headers.Headers[j])

\* the validity window of claims c contains time t
InWindow(c, t) ==
    /\ c.hasIat => c.iat <= t
    /\ c.hasExp => t < c.exp
    /\ c.hasNbf => c.nbf <= t

HasSubject(c) == c.hasSub /\ c.sub # ""

\* a header-set instruction for x-uid
SetsUID(hs) == \E i \in 1..Len(hs) : hs[i].Key = headerUID
SetsUIDTo(hs, sub) ==
    /\ SetsUID(hs)
    /\ \A i \in 1..Len(hs) : hs[i].Key = headerUID => hs[i].Value = sub

CheckAllows(sub) ==
    /\ check.resp.Status.Code = codesOK
    /\ check.resp.HttpResponse.type = "OkResponse"
    /\ SetsUIDTo(check.resp.HttpResponse.Headers, sub)

CheckDenies ==
    /\ check.resp.Status.Code # codesOK
    /\ check.resp.HttpResponse.type = "DeniedResponse"
    /\ ~SetsUID(check.resp.HttpResponse.Headers)

CheckDeniesWith(reason) ==
    /\ CheckDenies
    /\ check.resp.Status.Message = reason
    /\ check.resp.HttpResponse.Body = "denied: " \o reason

ProcContinuesWith(sub) ==
    /\ proc.resp.type = "RequestHeaders"
    /\ proc.resp.Status = "CONTINUE"
    /\ SetsUIDTo(proc.resp.SetHeaders, sub)

ProcDenies ==
    /\ proc.resp.type = "ImmediateResponse"
    /\ proc.resp.HttpStatus = StatusCodeForbidden
    /\ ~SetsUID(proc.resp.SetHeaders)

ProcDeniesWith(reason) ==
    /\ ProcDenies
    /\ proc.resp.Body = "denied: " \o reason

----------------------------------------------------------------------------
(* C1: a token signed with RS256 by the configured key, with a non-empty   *)
(* subject, presented as `authorization: Bearer <token>` at a time inside  *)
(* its validity window, makes Check return Allow and handleRequestHeaders  *)
(* return a continue response, each setting x-uid to the token's subject.  *)
C1_ValidTokenAllowed ==
    \A p \in PayloadBlobs :
        (PresentedBearer(GoodToken(publicKey, p)) /\ HasSubject(ClaimsOf(p))) =>
            /\ (check.done /\ InWindow(ClaimsOf(p), check.at)) =>
                    (check.err = "nil" /\ CheckAllows(ClaimsOf(p).sub))
            /\ (proc.done /\ InWindow(ClaimsOf(p), proc.at)) =>
                    (proc.err = "nil" /\ ProcContinuesWith(ClaimsOf(p).sub))

C1_Witness ==
    /\ PresentedBearer(GoodToken(publicKey, "plBob"))
    /\ check.done /\ InWindow(ClaimsOf("plBob"), check.at)
    /\ proc.done /\ InWindow(ClaimsOf("plBob"), proc.at)
    /\ CheckAllows("bob")
    /\ ProcContinuesWith("bob")

(* C2: a token signed with RS256 by a key other than the configured one is *)
(* denied by Check and by handleRequestHeaders with the signature-failure  *)
(* reason, whatever its claims and whatever the time; no x-uid is set.     *)
C2_OtherKeyDenied ==
    \A k \in Keys \ {publicKey} : \A p \in PayloadBlobs :
        PresentedBearer(GoodToken(k, p)) =>
            /\ check.done => (check.err = "nil" /\ CheckDeniesWith(errJwsVerify))
            /\ proc.done => (proc.err = "nil" /\ ProcDeniesWith(errJwsVerify))

C2_Witness ==
    /\ \E k \in Keys \ {publicKey} : PresentedBearer(GoodToken(k, "plAlice"))
    /\ check.done /\ InWindow(ClaimsOf("plAlice"), check.at)
    /\ proc.done /\ InWindow(ClaimsOf("plAlice"), proc.at)
    /\ CheckDeniesWith(errJwsVerify)
    /\ ProcDeniesWith(errJwsVerify)

(* C3: every token whose protected header declares an algorithm other than *)
(* RS256 is denied by Check and by handleRequestHeaders, whatever payload  *)
(* and signature it carries.  The code hands the algorithm to jwxjwt.Parse *)
(* itself and never reads the declared one, so this is stated to be        *)
(* refuted: a token declaring HS256 that carries an RS256 signature of the *)
(* configured key over its own header and payload is allowed.              *)
OtherAlgHeaders == {"hdrHS256", "hdrNone"}

C3_OtherAlgDenied ==
    \A h \in OtherAlgHeaders : \A p \in PayloadSymbols :
        \A sig \in SignaturesFor(h, p) :
            PresentedBearer(Token(h, p, sig)) =>
                /\ check.done => CheckDenies
                /\ proc.done => ProcDenies

\* what does hold of such tokens: one produced under its declared algorithm
\* (an HMAC signature, or none at all) is denied with the verification reason
C3_ProducedWithOtherAlgDenied ==
    \A h \in OtherAlgHeaders : \A p \in PayloadSymbols :
        \A sig \in {<<SignatureBlob("HS256", "secret", h, p)>>, << >>} :
            PresentedBearer(Token(h, p, sig)) =>
                /\ check.done => CheckDeniesWith(errJwsVerify)
                /\ proc.done => ProcDeniesWith(errJwsVerify)

(* C4: a token correctly signed by the configured key, presented inside    *)
(* its validity window, whose subject claim is absent or empty, is denied  *)
(* by Check and by handleRequestHeaders with the reason "subject is        *)
(* missing".                                                               *)
C4_MissingSubjectDenied ==
    \A p \in PayloadBlobs :
        (PresentedBearer(GoodToken(publicKey, p)) /\ ~HasSubject(ClaimsOf(p))) =>
            /\ (check.done /\ InWindow(ClaimsOf(p), check.at)) =>
                    (check.err = "nil" /\ CheckDeniesWith("subject is missing"))
            /\ (proc.done /\ InWindow(ClaimsOf(p), proc.at)) =>
                    (proc.err = "nil" /\ ProcDeniesWith("subject is missing"))

C4_Witness ==
    /\ PresentedBearer(GoodToken(publicKey, "plEmptySub"))
    /\ ClaimsOf("plEmptySub").hasSub /\ ClaimsOf("plEmptySub").sub = ""
    /\ check.done /\ InWindow(ClaimsOf("plEmptySub"), check.at)
    /\ proc.done /\ InWindow(ClaimsOf("plEmptySub"), proc.at)
    /\ CheckDeniesWith("subject is missing")
    /\ ProcDeniesWith("subject is missing")

(* C5: a token correctly signed by the configured key, with a non-empty    *)
(* subject, presented at a time outside its validity window (not yet       *)
(* valid, or expired) is denied by Check and by handleRequestHeaders and   *)
(* never allowed.                                                          *)
C5_OutsideWindowDenied ==
    \A p \in PayloadBlobs :
        (PresentedBearer(GoodToken(publicKey, p)) /\ HasSubject(ClaimsOf(p))) =>
            /\ (check.done /\ ~InWindow(ClaimsOf(p), check.at)) =>
                    (check.err = "nil" /\ CheckDenies)
            /\ (proc.done /\ ~InWindow(ClaimsOf(p), proc.at)) =>
                    (proc.err = "nil" /\ ProcDenies)

\* the token of "alice" is checked before its issue time and handled after
\* its expiry
C5_Witness ==
    /\ PresentedBearer(GoodToken(publicKey, "plAlice"))
    /\ check.done /\ check.at < ClaimsOf("plAlice").iat
    /\ proc.done /\ proc.at >= ClaimsOf("plAlice").exp
    /\ CheckDenies
    /\ ProcDenies

(* C6: a bearer value that is not a well-formed compact token (a number of *)
(* dot-separated segments other than three, or a first segment that is no  *)
(* protected header) is denied by Check and by handleRequestHeaders with a *)
(* parse-level reason.                                                     *)
Dots(t) == Cardinality({i \in 1..Len(t) : t[i] = "."})

Malformed(t) ==
    \/ Dots(t) # 2
    \/ Len(t) = 0
    \/ t[1] \notin ProtectedBlobs

ParseLevelReasons == {errJwsCompact, errJwsProtected}

\* the request has one authorization entry, whose string value starts
\* with "Bearer "; the token is what follows
AuthIndexes ==
    IF headers.isNil THEN {}
    ELSE {i \in 1..Len(headers.Headers) : MatchesAuth(headers.Headers[i])}

PresentsSomeBearer ==
    /\ Cardinality(AuthIndexes) = 1
    /\ \A i \in AuthIndexes :
          /\ Len(headers.Headers[i].Value) >= Len(bearerPrefix)
          /\ \A n \in 1..Len(bearerPrefix) :
                headers.Headers[i].Value[n] = bearerPrefix[n]

PresentedToken ==
    LET v == headers.Headers[CHOOSE i \in AuthIndexes : TRUE].Value
    IN [n \in 1..(Len(v) - Len(bearerPrefix)) |-> v[n + Len(bearerPrefix)]]

C6_MalformedDenied ==
    (PresentsSomeBearer /\ Malformed(PresentedToken)) =>
        /\ check.done =>
              /\ check.err = "nil"
              /\ \E r \in ParseLevelReasons : CheckDeniesWith(r)
        /\ proc.done =>
              /\ proc.err = "nil"
              /\ \E r \in ParseLevelReasons : ProcDeniesWith(r)

\* the two-segment value of the client's "malformed" scenario
C6_Witness ==
    /\ PresentedBearer(<<"a", "b", "c", ".", "d", "e", "f">>)
    /\ check.done /\ proc.done
    /\ CheckDeniesWith(errJwsCompact)
    /\ ProcDeniesWith(errJwsCompact)

(* C7 and C8: the reference classification of a header collection *)

EffectiveValue(e) == IF e.Value # << >> THEN e.Value ELSE e.RawValue

\* the authorization entries that carry a value, as a string or as raw bytes
NonEmptyAuthIndexes ==
    {i \in AuthIndexes : EffectiveValue(headers.Headers[i]) # << >>}

FirstOf(S) == CHOOSE i \in S : \A j \in S : i <= j

StartsWithBearer(v) ==
    /\ Len(v) >= Len(bearerPrefix)
    /\ \A n \in 1..Len(bearerPrefix) : v[n] = bearerPrefix[n]

\* the three results, deciding on the first entry among those of S
Classified(S) ==
    IF S = {} THEN [value |-> << >>, err |-> "authorization header is missing"]
    ELSE LET v == EffectiveValue(headers.Headers[FirstOf(S)])
         IN IF ~StartsWithBearer(v)
            THEN [value |-> << >>, err |-> "authorization header is invalid"]
            ELSE [value |-> SubSeq(v, Len(bearerPrefix) + 1, Len(v)), err |-> "nil"]

ExtractionIs(S) ==
    /\ check.done =>
          /\ check.bearer = Classified(S)
          /\ check.bearer.err # "nil" =>
                (check.err = "nil" /\ CheckDeniesWith(check.bearer.err))
    /\ proc.done =>
          /\ proc.bearer = Classified(S)
          /\ proc.bearer.err # "nil" =>
                (proc.err = "nil" /\ ProcDeniesWith(proc.bearer.err))

(* C7, as stated: with no authorization entry the result is "authorization *)
(* header is missing"; with one, its value decides between "authorization  *)
(* header is invalid" and the value without the prefix.  Refuted by an     *)
(* authorization entry whose value is empty: the result is "missing".      *)
C7_ClassifiedByPresence == ExtractionIs(AuthIndexes)

(* C7, amended: with no authorization entry that carries a non-empty value *)
(* (string or raw bytes) the result is "authorization header is missing";  *)
(* otherwise the first such value gives "authorization header is invalid"  *)
(* when it does not start with the literal, case-sensitive "Bearer ", and  *)
(* else is returned with exactly that prefix removed.  Check and           *)
(* handleRequestHeaders deny with the same reason on the two errors.       *)
C7_ClassifiedByValue == ExtractionIs(NonEmptyAuthIndexes)

\* an authorization entry is there, none carries a value: "missing"
C7_Witness ==
    /\ AuthIndexes # {}
    /\ NonEmptyAuthIndexes = {}
    /\ check.done /\ proc.done
    /\ CheckDeniesWith("authorization header is missing")
    /\ ProcDeniesWith("authorization header is missing")

(* C8, as stated: the extraction result is that of the first entry whose   *)
(* key matches authorization, whatever follows it.  Refuted by a first     *)
(* matching entry with an empty value followed by a non-empty one.         *)
OnlyEntry(i) == [isNil |-> FALSE, Headers |-> <<headers.Headers[i]>>]

C8_FirstMatchDecides ==
    AuthIndexes # {} =>
        /\ check.done =>
              check.bearer = bearerFromHeaderMap(OnlyEntry(FirstOf(AuthIndexes)))
        /\ proc.done =>
              proc.bearer = bearerFromHeaderMap(OnlyEntry(FirstOf(AuthIndexes)))

(* C8, amended: the extraction result is that of the first matching entry  *)
(* that carries a non-empty value (string or raw bytes); the entries after *)
(* it never determine the result.                                          *)
C8_FirstValuedMatchDecides ==
    NonEmptyAuthIndexes # {} =>
        /\ check.done =>
              check.bearer = bearerFromHeaderMap(OnlyEntry(FirstOf(NonEmptyAuthIndexes)))
        /\ proc.done =>
              proc.bearer = bearerFromHeaderMap(OnlyEntry(FirstOf(NonEmptyAuthIndexes)))

\* two matching entries with different values: an invalid one, then a good one
C8_Witness ==
    /\ Cardinality(NonEmptyAuthIndexes) = 2
    /\ \E i, j \in NonEmptyAuthIndexes :
          /\ i < j
          /\ ~StartsWithBearer(EffectiveValue(headers.Headers[i]))
          /\ StartsWithBearer(EffectiveValue(headers.Headers[j]))
    /\ check.done /\ proc.done
    /\ CheckDeniesWith("authorization header is invalid")
    /\ ProcDeniesWith("authorization header is invalid")

(* C9: when Check allows, its response has status OK and exactly one       *)
(* header-set instruction: key x-uid, value the subject of the validated   *)
(* token, append flag false.                                               *)
CheckIsAllow == check.done /\ check.resp.HttpResponse.type = "OkResponse"

\* the subject claim in the payload segment of the token Check extracted
ExtractedSubject == ClaimsOf(check.bearer.value[3]).sub

C9_AllowShape ==
    CheckIsAllow =>
        /\ check.err = "nil"
        /\ check.resp.Status.Code = 0
        /\ Len(check.resp.HttpResponse.Headers) = 1
        /\ check.resp.HttpResponse.Headers[1].Key = <<"x", "-", "u", "i", "d">>
        /\ check.bearer.err = "nil"
        /\ check.bearer.value[3] \in PayloadBlobs
        /\ ExtractedSubject # ""
        /\ check.resp.HttpResponse.Headers[1].Value = ExtractedSubject
        /\ check.resp.HttpResponse.Headers[1].Append = FALSE

C9_Witness ==
    /\ CheckIsAllow
    /\ PresentedBearer(GoodToken(publicKey, "plAlice"))
    /\ check.resp.HttpResponse.Headers[1].Value = "alice"

(* C10: whenever Check does not allow (an extraction or a validation       *)
(* failure), its response is the one denial shape: status code             *)
(* PermissionDenied (7) with the failure reason as message, HTTP status    *)
(* 403, body "denied: " followed by the same reason, and no header-set     *)
(* instruction.                                                            *)
ValidationReasons ==
    {errJwsCompact, errJwsProtected, errJwsVerify, errJwtPayload,
     errJwtIat, errJwtExp, errJwtNbf, "subject is missing"}

C10_DenialShape ==
    (check.done /\ ~CheckIsAllow) =>
        /\ check.err = "nil"
        /\ check.resp.Status.Code = 7
        /\ check.resp.HttpResponse.type = "DeniedResponse"
        /\ check.resp.HttpResponse.Status = 403
        /\ check.resp.HttpResponse.Headers = << >>
        /\ check.resp.HttpResponse.Body = "denied: " \o check.resp.Status.Message
        /\ IF check.bearer.err # "nil"
           THEN check.resp.Status.Message = check.bearer.err
           ELSE check.resp.Status.Message \in ValidationReasons

\* an extraction failure is always a denial
C10_ExtractionFailureDenied ==
    (check.done /\ check.bearer.err # "nil") => ~CheckIsAllow

C10_Denial == C10_DenialShape /\ C10_ExtractionFailureDenied

\* a validation failure: the token was extracted and then rejected
C10_Witness ==
    /\ check.done
    /\ check.bearer.err = "nil"
    /\ check.resp.HttpResponse.type = "DeniedResponse"
    /\ check.resp.Status.Message = errJwtExp
    /\ check.resp.HttpResponse.Body = "denied: exp not satisfied: token is expired"

----------------------------------------------------------------------------
(* Vocabulary of the properties of a Process stream *)

NamedKinds == EventKinds \ {"Unset"}
IsNamedEvent(req) == req.kind \in NamedKinds

\* the received requests of the six named kinds, in order
Answered == SelectSeq(stream.inbound, IsNamedEvent)

ExtractionReasons ==
    {"authorization header is missing", "authorization header is invalid"}

AllowWithMutation(m) ==
    /\ m.type = "RequestHeaders"
    /\ m.Status = "CONTINUE"
    /\ SetsUID(m.SetHeaders)

IsImmediateDenial(m) ==
    /\ m.type = "ImmediateResponse"
    /\ m.HttpStatus = 403
    /\ m.SetHeaders = << >>
    /\ \E r \in ExtractionReasons \cup ValidationReasons :
          m.Body = "denied: " \o r

\* a response of the type of kind that changes nothing
IsPlainContinue(m, kind) ==
    /\ m.type = kind
    /\ kind \in {"RequestHeaders", "ResponseHeaders", "RequestBody", "ResponseBody"}
            => m.Status = "CONTINUE"
    /\ m.SetHeaders = << >>
    /\ m.HttpStatus = 0
    /\ m.Body = ""

\* the request-headers event carrying the token of payload p signed by the
\* configured key
GoodRequestHeaders(p) ==
    Event("RequestHeaders",
          [isNil |-> FALSE,
           Headers |-> <<Entry(headerAuth,
                               bearerPrefix \o GoodToken(publicKey, p), << >>)>>])

\* the token of payload p was inside its validity window at every clock
\* reading of the stream so far
ValidThroughout(p) == \A t \in 0..now : InWindow(ClaimsOf(p), t)

(* C11: for each received request of the six named kinds Process hands     *)
(* exactly one response to stream.Send, in the order received: for a       *)
(* request-headers event either the continue response that sets x-uid or   *)
(* the single ImmediateResponse with status 403 and body "denied: " and    *)
(* the reason; for any other kind the plain response of the matching type. *)
(* A request-headers event with a valid token gets the continue response   *)
(* setting x-uid to its subject.                                           *)
C11_OneResponsePerEvent ==
    /\ Len(stream.sent) = Len(Answered)
    /\ \A i \in 1..Len(stream.sent) :
          IF Answered[i].kind = "RequestHeaders"
          THEN /\ AllowWithMutation(stream.sent[i]) \/ IsImmediateDenial(stream.sent[i])
               /\ \A p \in {"plAlice", "plBob"} :
                     (Answered[i] = GoodRequestHeaders(p) /\ ValidThroughout(p)) =>
                         /\ AllowWithMutation(stream.sent[i])
                         /\ SetsUIDTo(stream.sent[i].SetHeaders, ClaimsOf(p).sub)
          ELSE IsPlainContinue(stream.sent[i], Answered[i].kind)

\* [RequestHeaders(valid), ResponseHeaders, RequestBody], answered in order
\* by the continue response setting x-uid and two plain responses
C11_Witness ==
    /\ ValidThroughout("plBob")
    /\ stream.inbound = <<GoodRequestHeaders("plBob"),
                          Event("ResponseHeaders", NilHeaderMap),
                          Event("RequestBody", NilHeaderMap)>>
    /\ Len(stream.sent) = 3
    /\ SetsUIDTo(stream.sent[1].SetHeaders, "bob")
    /\ IsPlainContinue(stream.sent[2], "ResponseHeaders")
    /\ IsPlainContinue(stream.sent[3], "RequestBody")

(* C12: a denied request-headers event produces one ImmediateResponse with *)
(* status 403 that ends the exchange: the denied request is the last one   *)
(* the stream receives and the ImmediateResponse the last response handed  *)
(* to stream.Send.  Process has no exit after sending an ImmediateResponse *)
(* and goes on to the next stream.Recv, so this is stated to be refuted: a *)
(* request received after the denial is answered like any other.           *)
ImmediateIndexes ==
    {i \in 1..Len(stream.sent) : stream.sent[i].type = "ImmediateResponse"}

C12_DenialEndsExchange ==
    \A i \in ImmediateIndexes :
        /\ stream.sent[i].HttpStatus = 403
        /\ i = Len(stream.sent)
        /\ i = Len(Answered)
        /\ IsNamedEvent(stream.inbound[Len(stream.inbound)])

(* C13: authorization is decided once per stream, at its first             *)
(* request-headers event: among the responses of a stream at most one is a *)
(* decision (the continue response setting x-uid, or an ImmediateResponse) *)
(* and it answers the first request-headers event.  handleProcessingRequest *)
(* calls handleRequestHeaders on every request-headers event and keeps no  *)
(* state between them, so this is stated to be refuted: a second           *)
(* request-headers event is validated and decided again.                   *)
DecisionIndexes ==
    {i \in 1..Len(stream.sent) :
        AllowWithMutation(stream.sent[i]) \/ stream.sent[i].type = "ImmediateResponse"}

RequestHeadersIndexes ==
    {i \in 1..Len(Answered) : Answered[i].kind = "RequestHeaders"}

C13_DecidedOnce ==
    /\ Cardinality(DecisionIndexes) <= 1
    /\ \A i \in DecisionIndexes : \A j \in RequestHeadersIndexes : i <= j

(* C14: a stream leaves Open only when the transport ends it.  A step that *)
(* closes the stream is a clean end-of-stream, with Process returning nil  *)
(* and nothing received or sent, or a failed Recv, with Process returning  *)
(* that error, or a failed Send of one response, with Process returning    *)
(* that error; and every such transport result closes it.  No failed Recv  *)
(* or Send is tried again, a closed stream receives and sends nothing      *)
(* more, and while Process runs it has returned nothing, so a denial never *)
(* closes the stream.                                                      *)
ClosesWith(at) ==
    /\ stream'.state = "Closed"
    /\ stream'.faultAt = at

C14_Step ==
    /\ stream.state = "Closed" => stream' = stream
    /\ stream'.state = "Open" =>
          (stream'.ret = "running" /\ stream'.faultAt = "none" /\ stream'.fault = "nil")
    /\ (stream.state = "Open" /\ stream'.state = "Closed") =>
          \/ /\ ClosesWith("eof")
             /\ stream'.ret = "nil"
             /\ stream'.fault = "nil"
             /\ stream'.inbound = stream.inbound
             /\ stream'.sent = stream.sent
          \/ /\ ClosesWith("recv")
             /\ stream'.fault \in TransportErrors
             /\ stream'.ret = stream'.fault
             /\ stream'.inbound = stream.inbound
             /\ stream'.sent = stream.sent
          \/ /\ ClosesWith("send")
             /\ stream'.fault \in TransportErrors
             /\ stream'.ret = stream'.fault
             /\ Len(stream'.inbound) = Len(stream.inbound) + 1
             /\ Len(stream'.sent) = Len(stream.sent) + 1

C14_ClosedOnlyByTransport == [][C14_Step]_vars

\* a stream that answered a denial, went on, and was closed by a failed Send
C14_Witness ==
    /\ stream.state = "Closed"
    /\ stream.faultAt = "send"
    /\ stream.ret \in TransportErrors
    /\ \E i \in ImmediateIndexes : i < Len(stream.sent)

(* C15: no extraction or validation failure is returned as an error: every *)
(* Check call, also on a request with no header map (no attributes, no     *)
(* request or no HTTP bundle), returns a response, allow or denial, with a *)
(* nil error, and every handleRequestHeaders call returns a response, the  *)
(* continue one or the ImmediateResponse, with a nil error.                *)
C15_NoProtocolFault ==
    /\ check.done =>
          /\ check.err = "nil"
          /\ CheckIsAllow \/ CheckDenies
    /\ proc.done =>
          /\ proc.err = "nil"
          /\ proc.resp.type = "RequestHeaders" \/ ProcDenies

\* the request without a header map, denied by both with a nil error
C15_Witness ==
    /\ headers.isNil
    /\ check.done /\ check.err = "nil"
    /\ CheckDeniesWith("authorization header is missing")
    /\ proc.done /\ proc.err = "nil"
    /\ ProcDeniesWith("authorization header is missing")

(* C16: the inbound x-uid entries of a request are never read: the Check   *)
(* response and the handleRequestHeaders response are those of the request *)
(* with every x-uid entry removed, so two requests that differ only in     *)
(* such entries get identical responses.  A response carries an x-uid      *)
(* instruction only when it is the allow outcome, and then exactly one,    *)
(* whose value is the subject of the validated token and whose append flag *)
(* is false.                                                               *)
NotUID(e) == ~EqualFold(e.Key, headerUID)

WithoutUID(hm) == [hm EXCEPT !.Headers = SelectSeq(@, NotUID)]

CarriesUID == ~headers.isNil /\ WithoutUID(headers) # headers

\* hs is the one instruction {x-uid, sub, append = false}
OnlySetsUID(hs, sub) ==
    /\ Len(hs) = 1
    /\ hs[1].Key = headerUID
    /\ hs[1].Value = sub
    /\ hs[1].RawValue = sub
    /\ hs[1].Append = FALSE

C16_UIDNeverReadOnlyWritten ==
    /\ check.done =>
          /\ check.resp = Check(publicKey, WithoutUID(headers), check.at).resp
          /\ SetsUID(check.resp.HttpResponse.Headers) =>
                /\ CheckIsAllow
                /\ check.resp.Status.Code = codesOK
                /\ check.bearer.err = "nil"
                /\ OnlySetsUID(check.resp.HttpResponse.Headers, ExtractedSubject)
    /\ proc.done =>
          /\ proc.resp = handleRequestHeaders(publicKey, WithoutUID(headers), proc.at).resp
          /\ SetsUID(proc.resp.SetHeaders) =>
                /\ proc.resp.type = "RequestHeaders"
                /\ proc.resp.Status = "CONTINUE"
                /\ proc.bearer.err = "nil"
                /\ OnlySetsUID(proc.resp.SetHeaders,
                               ClaimsOf(proc.bearer.value[3]).sub)

\* a request that brings its own x-uid ahead of a valid token: the value it
\* brought is nowhere in the responses
C16_Witness ==
    /\ CarriesUID
    /\ headers.Headers[1] = Entry(headerUID, <<"m", "a", "l">>, << >>)
    /\ check.done /\ CheckAllows("alice")
    /\ proc.done /\ ProcContinuesWith("alice")

(* C17: main listens, registers its two services and serves a call only    *)
(* when PUBLIC_KEY_PEM was non-empty and, with every backslash-n replaced  *)
(* by a line break, is a PEM block of type exactly PUBLIC KEY holding an    *)
(* RSA key, which is then the key of the server; in every other            *)
(* environment main ends in log.Fatalf with nothing registered and no call *)
(* served.                                                                 *)
Normalised(pem) == ReplaceAll(pem, escapedNewline, <<newline>>)

\* the keys that the text, once normalised, is the PUBLIC KEY block of
ConfiguredKeys(pem) ==
    {k \in Keys :
        \E tail \in {<< >>, <<newline>>} :
            Normalised(pem) = PemOf("PUBLIC KEY", PkixOf(k), <<newline>>) \o tail}

Served == check.done \/ proc.done

C17_ServesOnlyWithKey ==
    /\ boot.pc \in {"configured", "listening", "serving"} =>
          /\ boot.PUBLIC_KEY_PEM # << >>
          /\ publicKey \in ConfiguredKeys(boot.PUBLIC_KEY_PEM)
    /\ (boot.registered # {} \/ Served) =>
          /\ publicKey \in ConfiguredKeys(boot.PUBLIC_KEY_PEM)
          /\ boot.registered = Services
    /\ Served => boot.pc \in {"serving", "exited"}
    /\ (ConfiguredKeys(boot.PUBLIC_KEY_PEM) = {} /\ boot.pc # "start") =>
          /\ boot.pc = "exited"
          /\ boot.fatal # "none"
          /\ boot.registered = {}
          /\ ~Served

\* started with the key of the first pair written with escaped line breaks,
\* the server allows the token signed by that pair
C17_Witness ==
    /\ boot.pc = "serving"
    /\ boot.PUBLIC_KEY_PEM = PemOf("PUBLIC KEY", "pkixRSA1", escapedNewline)
    /\ boot.PUBLIC_KEY_PEM # Normalised(boot.PUBLIC_KEY_PEM)
    /\ publicKey = "K1"
    /\ check.done /\ CheckAllows("bob")

(* C18: the plugin and the callout server decide alike.  For a request     *)
(* with one authorization header value, a plugin configured with the key   *)
(* of the callout server and a host that carries out its calls, the        *)
(* plugin returns Continue exactly when Check allows, and the x-uid it     *)
(* puts on the request is the subject Check puts in its response.  Stated  *)
(* on the values that do not declare another algorithm, where the way the  *)
(* callout server reads the algorithm (C3) plays no part.  The plugin      *)
(* reads no iat, exp or nbf claim, so this is stated to be refuted: a      *)
(* token outside its validity window is continued by the plugin and denied *)
(* by Check.                                                               *)
OneAuthorizationValue ==
    /\ ~headers.isNil
    /\ Cardinality(AuthIndexes) <= 1
    /\ \A i \in AuthIndexes :
          /\ headers.Headers[i].Key = headerAuth
          /\ headers.Headers[i].RawValue = << >>

DeclaresOtherAlg ==
    /\ PresentsSomeBearer
    /\ PresentedToken # << >>
    /\ PresentedToken[1] \in OtherAlgHeaders

PluginHoldsServerKey ==
    /\ ~wasm.state.isNil
    /\ wasm.state.configErr = "nil"
    /\ wasm.state.publicKey = publicKey

HostCarriesOut == wasm.call.host = HostResult("OK", "OK", "OK")

\* the values of the x-uid headers that go on downstream
ForwardedUIDs ==
    {wasm.call.forwarded[i].Value :
        i \in {j \in 1..Len(wasm.call.forwarded) :
                  EqualFold(wasm.call.forwarded[j].Key, headerUID)}}

C18_PluginMatchesCheck ==
    (/\ check.done /\ wasm.call.done
     /\ OneAuthorizationValue /\ ~DeclaresOtherAlg
     /\ PluginHoldsServerKey /\ HostCarriesOut) =>
        /\ wasm.call.action = "Continue" <=> CheckIsAllow
        /\ wasm.call.action = "Continue" =>
              ForwardedUIDs = {check.resp.HttpResponse.Headers[1].Value}

\* what does hold: on the tokens presented inside their validity window the
\* plugin and Check decide alike
PresentedOutsideWindow ==
    /\ PresentsSomeBearer
    /\ Len(PresentedToken) >= 3
    /\ PresentedToken[3] \in PayloadBlobs
    /\ ~InWindow(ClaimsOf(PresentedToken[3]), check.at)

C18_MatchesInsideWindow ==
    (/\ check.done /\ wasm.call.done
     /\ OneAuthorizationValue /\ ~DeclaresOtherAlg /\ ~PresentedOutsideWindow
     /\ PluginHoldsServerKey /\ HostCarriesOut) =>
        /\ wasm.call.action = "Continue" <=> CheckIsAllow
        /\ wasm.call.action = "Continue" =>
              ForwardedUIDs = {check.resp.HttpResponse.Headers[1].Value}

(* C19: validation is idempotent.  Once a request carrying a valid token   *)
(* was allowed with its subject, by Check or by handleRequestHeaders,      *)
(* every further validation of it made while the token is inside its       *)
(* validity window, by either of the two, allows it again with the same    *)
(* subject; and a validation changes neither the key nor the request nor   *)
(* the clock nor what the other adapter returned.                          *)
AllowedBefore(sub) ==
    \/ check.done /\ CheckAllows(sub)
    \/ proc.done /\ ProcContinuesWith(sub)

C19_Step ==
    /\ \A p \in PayloadBlobs :
          (/\ PresentedBearer(GoodToken(publicKey, p))
           /\ HasSubject(ClaimsOf(p))
           /\ AllowedBefore(ClaimsOf(p).sub)
           /\ InWindow(ClaimsOf(p), now)) =>
              /\ check' # check => (check'.err = "nil" /\ CheckAllows(ClaimsOf(p).sub)')
              /\ proc' # proc => (proc'.err = "nil" /\ ProcContinuesWith(ClaimsOf(p).sub)')
    /\ (check' # check \/ proc' # proc) =>
          /\ UNCHANGED <<publicKey, headers, now>>
          /\ check' = check \/ proc' = proc

C19_Idempotent == [][C19_Step]_vars

\* the token of "alice" allowed twice, at two clock readings, once by each
C19_Witness ==
    /\ PresentedBearer(GoodToken(publicKey, "plAlice"))
    /\ check.done /\ proc.done
    /\ check.at # proc.at
    /\ CheckAllows("alice")
    /\ ProcContinuesWith("alice")

(* C20: Check and handleRequestHeaders take the same decision on the same  *)
(* header collection, key and clock reading: Check allows with subject s   *)
(* exactly when handleRequestHeaders returns the continue response setting *)
(* x-uid to s, with the same instruction; and Check denies with reason r   *)
(* exactly when handleRequestHeaders returns the ImmediateResponse whose   *)
(* body is "denied: " followed by r.                                       *)
C20_SameDecision ==
    (check.done /\ proc.done /\ check.at = proc.at) =>
        /\ check.bearer = proc.bearer
        /\ CheckIsAllow <=> proc.resp.type = "RequestHeaders"
        /\ CheckDenies <=> ProcDenies
        /\ CheckIsAllow =>
              /\ proc.resp.Status = "CONTINUE"
              /\ proc.resp.SetHeaders = check.resp.HttpResponse.Headers
              /\ \E sub \in {"alice", "bob"} :
                    CheckAllows(sub) /\ ProcContinuesWith(sub)
        /\ CheckDenies =>
              /\ CheckDeniesWith(check.resp.Status.Message)
              /\ ProcDeniesWith(check.resp.Status.Message)

\* a token whose subject is empty, denied by both in the same words at the
\* same clock reading
C20_Witness ==
    /\ PresentedBearer(GoodToken(publicKey, "plEmptySub"))
    /\ check.done /\ proc.done
    /\ check.at = proc.at
    /\ check.resp.HttpResponse.Body = "denied: subject is missing"
    /\ proc.resp.Body = "denied: subject is missing"

(* C21: the mapping from the kind of a received request to the shape of    *)
(* its response is total on the six named kinds and keeps the shapes       *)
(* apart.  A ResponseHeaders, RequestBody or ResponseBody request is       *)
(* answered by the response of its own kind with status CONTINUE and no    *)
(* header mutation, a RequestTrailers or ResponseTrailers request by the   *)
(* empty trailers response of its own kind, with no status; only a         *)
(* RequestHeaders request is ever answered with a header mutation or an    *)
(* ImmediateResponse, and no request of a named kind goes unanswered.      *)
ContinueKinds == {"ResponseHeaders", "RequestBody", "ResponseBody"}
TrailersKinds == {"RequestTrailers", "ResponseTrailers"}

ExpectedShape(kind) ==
    [type |-> kind,
     Status |-> IF kind \in TrailersKinds THEN "" ELSE "CONTINUE",
     SetHeaders |-> << >>, HttpStatus |-> 0, Body |-> ""]

C21_MappingTotal ==
    /\ Len(stream.sent) = Len(Answered)
    /\ \A i \in 1..Len(stream.sent) :
          /\ stream.sent[i] # NilResponse
          /\ stream.sent[i].type \in NamedKinds \cup {"ImmediateResponse"}
          /\ Answered[i].kind \in ContinueKinds \cup TrailersKinds =>
                stream.sent[i] = ExpectedShape(Answered[i].kind)
          /\ (stream.sent[i].SetHeaders # << >>
                 \/ stream.sent[i].type = "ImmediateResponse") =>
                Answered[i].kind = "RequestHeaders"
          /\ \A j \in 1..Len(stream.sent) :
                (Answered[i].kind # Answered[j].kind
                    /\ stream.sent[i].type # "ImmediateResponse"
                    /\ stream.sent[j].type # "ImmediateResponse") =>
                    stream.sent[i].type # stream.sent[j].type

\* a stream that received one request of each body and trailers kind
C21_Witness ==
    /\ Len(stream.inbound) = 3
    /\ {stream.inbound[i].kind : i \in 1..3}
          = {"RequestBody", "RequestTrailers", "ResponseTrailers"}
    /\ Len(stream.sent) = 3
    /\ \A i \in 1..3 : stream.sent[i] = ExpectedShape(stream.inbound[i].kind)

(* C22: the extractor finds the authorization entry whatever the case of   *)
(* its key, and takes from that entry the string value when there is one   *)
(* and the raw bytes only when the string value is empty; Check, on the    *)
(* header map of its request, and Process, on the header map of a          *)
(* request-headers event, extract the same.  Stated on the entry the       *)
(* extraction is taken from: with a single matching entry that is the      *)
(* entry; with several, the result is "missing" only when none of them     *)
(* carries a value, and else comes from one of them that does.             *)
FromEntry(e) ==
    IF EffectiveValue(e) = << >>
    THEN [value |-> << >>, err |-> "authorization header is missing"]
    ELSE IF ~StartsWithBearer(EffectiveValue(e))
    THEN [value |-> << >>, err |-> "authorization header is invalid"]
    ELSE [value |-> SubSeq(EffectiveValue(e), Len(bearerPrefix) + 1,
                           Len(EffectiveValue(e))),
          err |-> "nil"]

TakenFromMatchedEntry(bearer) ==
    /\ Cardinality(AuthIndexes) = 1 =>
          \A i \in AuthIndexes : bearer = FromEntry(headers.Headers[i])
    /\ bearer.err = "authorization header is missing" <=> NonEmptyAuthIndexes = {}
    /\ bearer.err # "authorization header is missing" =>
          \E i \in NonEmptyAuthIndexes : bearer = FromEntry(headers.Headers[i])

C22_StringThenRaw ==
    /\ check.done => TakenFromMatchedEntry(check.bearer)
    /\ proc.done => TakenFromMatchedEntry(proc.bearer)
    /\ (check.done /\ proc.done) => check.bearer = proc.bearer

\* the only matching entry is keyed "Authorization" and carries raw bytes
\* and no string value: the raw bytes are what the extraction decides on
C22_Witness ==
    /\ Cardinality(AuthIndexes) = 1
    /\ \A i \in AuthIndexes :
          /\ headers.Headers[i].Key # headerAuth
          /\ headers.Headers[i].Value = << >>
          /\ headers.Headers[i].RawValue # << >>
          /\ check.bearer = FromEntry(headers.Headers[i])
    /\ check.done /\ proc.done
    /\ check.bearer.err = "authorization header is invalid"
    /\ proc.bearer = check.bearer

(* C23: the five failure classes of a token are denied with pairwise       *)
(* distinct reasons.  The defects of a token are read off the token, the   *)
(* key and the clock; a token that has exactly one of them fails for that  *)
(* class.  Whenever the presented token fails for one class and is denied, *)
(* by Check or by the plugin, no token that fails for another class is     *)
(* denied with the same reason string.  Stated to be refuted: Check denies *)
(* a token produced under HS256 and a token signed by another RSA key with *)
(* the same verification reason, and the plugin denies a token whose       *)
(* header segment cannot be decoded and a token declaring HS256 with the   *)
(* same "token header is invalid".                                         *)
FailureClasses == {"malformed", "algorithm", "signature", "temporal", "subject"}

Defects(t, key, clock) ==
    LET parts == SplitCompact(t)
    IN IF \/ Len(parts) # 3
          \/ ~DecodeProtected(parts[1]).ok
          \/ ~DecodePayload(parts[2]).ok
       THEN {"malformed"}
       ELSE LET alg == DecodeProtected(parts[1]).alg
                c == DecodePayload(parts[2]).claims
                underDeclared ==
                    CASE alg = "HS256" ->
                           parts[3] = <<SignatureBlob("HS256", "secret",
                                                      parts[1][1], parts[2][1])>>
                      [] alg = "none" -> parts[3] = << >>
                      [] OTHER -> FALSE
                verifies == VerifyWithKey("RS256", key, parts[1], parts[2], parts[3])
            IN (IF alg # "RS256" THEN {"algorithm"} ELSE {})
                 \cup (IF ~verifies /\ ~underDeclared THEN {"signature"} ELSE {})
                 \cup (IF ~InWindow(c, clock) THEN {"temporal"} ELSE {})
                 \cup (IF ~HasSubject(c) THEN {"subject"} ELSE {})

\* two tokens each fail for one class only, and not for the same one
FailForDifferentClasses(t1, t2, key, clock) ==
    /\ Cardinality(Defects(t1, key, clock)) = 1
    /\ Cardinality(Defects(t2, key, clock)) = 1
    /\ Defects(t1, key, clock) # Defects(t2, key, clock)

\* tokens of each class to compare the presented one with
ReferenceTokens ==
    {<<"a", "b", "c", ".", "d", "e", "f">>,
     Token("hdrJunk", "plBob", <<SignatureBlob("RS256", "K1", "hdrJunk", "plBob")>>),
     Token("hdrHS256", "plBob", <<SignatureBlob("HS256", "secret", "hdrHS256", "plBob")>>)}
        \cup {GoodToken(k, p) : k \in Keys, p \in {"plBob", "plAlice", "plNoSub"}}

BearerOnly(t) ==
    [isNil |-> FALSE, Headers |-> <<Entry(headerAuth, bearerPrefix \o t, << >>)>>]

\* the reason Check, and the plugin, deny token t with; "nil" when allowed
CheckReason(t, clock) ==
    LET r == Check(publicKey, BearerOnly(t), clock)
    IN IF r.resp.Status.Code # codesOK THEN r.resp.Status.Message ELSE "nil"

PluginReason(t) ==
    LET r == OnHttpRequestHeaders(wasm.state, BearerOnly(t).Headers,
                                  HostResult("OK", "OK", "OK"))
    IN IF r.action = "Pause" THEN r.sent[1].body ELSE "nil"

C23_CheckReasonsDistinct ==
    (PresentsSomeBearer /\ check.done /\ CheckDenies) =>
        \A t2 \in ReferenceTokens :
            FailForDifferentClasses(PresentedToken, t2, publicKey, check.at) =>
                check.resp.Status.Message # CheckReason(t2, check.at)

C23_PluginReasonsDistinct ==
    (/\ PresentsSomeBearer /\ wasm.call.done /\ PluginHoldsServerKey
     /\ wasm.call.action = "Pause") =>
        \A t2 \in ReferenceTokens : \A clock \in 0..MaxTime :
            FailForDifferentClasses(PresentedToken, t2, publicKey, clock) =>
                wasm.call.sent[1].body # PluginReason(t2)

C23_ReasonsDistinct == C23_CheckReasonsDistinct /\ C23_PluginReasonsDistinct

(* C24: the RPCs served at the same time are independent.  In every step   *)
(* of every interleaving of two Process streams and a Check call: the      *)
(* stored key is not written and is not nil; the responses a stream has    *)
(* sent are those its own handled requests get under the key, and the      *)
(* response of the Check call is the one its own request gets; a step of   *)
(* one stream, a transport error that closes it included, changes neither  *)
(* the other stream (its requests, its responses, whether it is open) nor  *)
(* the Check call, and a Check call changes no stream.                     *)
RECURSIVE AnswersTo(_, _, _)
AnswersTo(reqs, key, clock) ==
    IF reqs = << >> THEN << >>
    ELSE LET r == handleProcessingRequest(key, Head(reqs), clock)
         IN IF r.err # "nil" \/ r.resp = NilResponse
            THEN AnswersTo(Tail(reqs), key, clock)
            ELSE <<r.resp>> \o AnswersTo(Tail(reqs), key, clock)

HandledOf(c) ==
    IF c.pending = NoRequest THEN c.inbound
    ELSE SubSeq(c.inbound, 1, Len(c.inbound) - 1)

OwnOutputs ==
    /\ \A s \in StreamIds :
          conc[s].sent = AnswersTo(HandledOf(conc[s]), publicKey, now)
    /\ check.done =>
          /\ check.resp = Check(publicKey, headers, check.at).resp
          /\ check.err = Check(publicKey, headers, check.at).err

C24_Step ==
    /\ publicKey' = publicKey
    /\ publicKey # NilKey
    /\ OwnOutputs
    /\ \A s \in StreamIds :
          /\ conc'[s].sent =
                conc[s].sent \o (IF conc'[s].inbound = conc[s].inbound
                                    /\ conc'[s].pending # conc[s].pending
                                 THEN AnswersTo(<<conc[s].pending>>, publicKey, now)
                                 ELSE << >>)
          /\ conc'[s] # conc[s] =>
                /\ check' = check
                /\ \A o \in StreamIds \ {s} : conc'[o] = conc[o]
    /\ check' # check =>
          /\ conc' = conc
          /\ check'.resp = Check(publicKey, headers, now).resp
          /\ check'.err = Check(publicKey, headers, now).err

C24_Independent == [][C24_Step]_vars

\* one stream was closed by a transport error while the other, still open,
\* has sent a response and holds its next request, and a Check call was made
C24_Witness ==
    /\ conc["s1"].state = "Closed"
    /\ conc["s1"].ret \in TransportErrors
    /\ conc["s1"].sent # << >>
    /\ conc["s2"].state = "Open"
    /\ conc["s2"].sent # << >>
    /\ conc["s2"].pending # NoRequest
    /\ check.done

(* C25: the plugin fails closed on its configuration.  With a              *)
(* configuration that cannot be read, is empty, is not JSON, or holds no   *)
(* PUBLIC KEY block with an RSA key, OnPluginStart still goes through and  *)
(* leaves the plugin without a key, and every OnHttpRequestHeaders call    *)
(* then sends the one local response 403 "denied: plugin config is         *)
(* invalid" and returns Pause: the request is not continued and goes on    *)
(* with no x-uid set.                                                      *)
C25_FailsClosed ==
    wasm.config \in BadPluginConfigs =>
        /\ wasm.pc = "started" =>
              /\ wasm.status = "OnPluginStartStatusOK"
              /\ \/ wasm.state.isNil
                 \/ wasm.state.configErr # "nil"
                 \/ wasm.state.publicKey = NilKey
        /\ wasm.call.done =>
              /\ wasm.call.action = "Pause"
              /\ wasm.call.sent = <<LocalResponse("denied: plugin config is invalid")>>
              /\ wasm.call.sent[1].status = 403
              /\ wasm.call.forwarded = headers.Headers
              /\ ForwardedUIDs = {}

\* the configuration holds an RSA key in a CERTIFICATE block, and a request
\* with a token that key verifies is denied
C25_Witness ==
    /\ wasm.config = PluginConfig("OK", "json",
                                  PemOf("CERTIFICATE", "pkixRSA1", escapedNewline))
    /\ wasm.pc = "started"
    /\ wasm.call.done
    /\ PresentedBearer(GoodToken("K1", "plAlice"))
    /\ wasm.call.action = "Pause"
    /\ wasm.call.sent = <<LocalResponse("denied: plugin config is invalid")>>

(* C26: whenever OnHttpRequestHeaders returns Continue, the x-uid header   *)
(* that goes on downstream is the subject of the validated token and       *)
(* nothing else, whatever x-uid the client sent and whatever the host      *)
(* answers to ReplaceHttpRequestHeader and AddHttpRequestHeader; in every  *)
(* other outcome exactly one local response, a 403, was sent and the       *)
(* callback returned Pause.  Stated to be refuted: when the host refuses   *)
(* the replacement the callback only logs it and returns Continue, and the *)
(* request goes on with the x-uid the client sent, or with none.           *)
\* the x-uid values that go on downstream, each as it is written out; a
\* subject and a value the client sent are compared in that form
ForwardedUIDsWritten ==
    {ToString(wasm.call.forwarded[i].Value) :
        i \in {j \in 1..Len(wasm.call.forwarded) :
                  EqualFold(wasm.call.forwarded[j].Key, headerUID)}}

C26_ContinueCarriesSubject ==
    wasm.call.done =>
        /\ wasm.call.action = "Continue" =>
              /\ PresentsSomeBearer
              /\ wasm.call.sent = << >>
              /\ ForwardedUIDsWritten = {ToString(ClaimsOf(PresentedToken[3]).sub)}
        /\ wasm.call.action # "Continue" =>
              /\ wasm.call.action = "Pause"
              /\ Len(wasm.call.sent) = 1
              /\ wasm.call.sent[1].status = 403

\* what does hold: the same, in the calls whose replacement the host
\* carried out, or whose addition it carried out after a replacement that
\* found no x-uid on a request that had none
ClientSentUID ==
    \E i \in 1..Len(headers.Headers) : EqualFold(headers.Headers[i].Key, headerUID)

C26_HoldsWhenHostSetsHeader ==
    (/\ wasm.call.done
     /\ \/ wasm.call.host.replace = "OK"
        \/ /\ wasm.call.host.replace = "NotFound"
           /\ wasm.call.host.add = "OK"
           /\ ~ClientSentUID) =>
        C26_ContinueCarriesSubject

====
